---- MODULE Spec2Model ----
(***************************************************************************)
(* DuoCast-AI: the two-stage generation pipeline (scene composition, then  *)
(* video synthesis), its resilient remote-call clients and the credit      *)
(* ledger.  The repository holds three programs that run the two stages;   *)
(* the model runs them in four settings:                                   *)
(*   "api": the Express API server (server/index.js, services/imageGen.js, *)
(*          services/videoGen.js) driven by the React client (App.jsx);    *)
(*   "cli": DuoCastPipeline (src/pipeline/duocast.ts);                     *)
(*   "web": the job-registry web server (src/server.ts, processGeneration).*)
(*   "server": the Express API server again, taking requests from any      *)
(*          client, two at a time, and going through restarts and crashes. *)
(* One behaviour of the model is one of these programs; `program` says     *)
(* which.                                                                  *)
(***************************************************************************)
EXTENDS Integers, Sequences, FiniteSets, TLC

\* ------------------------------------------------------------ constants

MAX_RETRIES == 3
STARTING_CREDITS == 20000000
POLL_INTERVAL_MS == 10000
TIMEOUT_MS == 300000
POLL_ERROR_LIMIT == 5

RETRY_DELAYS == <<5000, 15000, 30000>>

\* Runs one React client session may start (handleGenerate after handleReset).
MaxRuns == 2

\* Slow polls in one call of generateVideo.
MaxSlowPolls == 1

\* ------------------------------------------------------------ inputs

\* HTTP statuses the remote API answers with.
Statuses == {200, 304, 400, 429, 500, 524}

\* credits_used values of a successful response (0: usage data absent).
CreditValues == {0, 250}

\* Time a slow poll round-trip takes, in ms (a timer firing late counts as
\* the same); the other polls are answered at once.
SlowPollMs == POLL_INTERVAL_MS \div 2

\* Texts supplied from outside the program: messages of network exceptions
\* (node-fetch), of the JSON parser, and error texts of the remote API.
NetTexts == {"request to URL failed, reason: ECONNRESET", "network timeout at: URL"}
JsonText == "invalid json response body at URL reason: Unexpected token <"
RemoteTexts == {"", "invalid prompt"}

\* The substrings the code searches error messages for.
Needles == {"API error (4", "error (4", "poll error", "server errors", "failed", "completed"}

TextFragments(text) ==
  CASE text = "request to URL failed, reason: ECONNRESET" -> {"failed"}
    [] OTHER -> {}

\* ------------------------------------------------------------ errors

NoError == [kind |-> "none", status |-> 0, text |-> ""]

Err(kind, status, text) == [kind |-> kind, status |-> status, text |-> text]

\* `(${status}` starts with "(4" exactly for the statuses 400..499.
StatusStartsWith4(status) == status \div 100 = 4

\* The needles found in the message of an error, computed from the template
\* the code builds the message with.
Fragments(err) ==
  CASE err.kind = "scene_5xx"    -> {}
    [] err.kind = "scene_http"   ->
         (IF StatusStartsWith4(err.status) THEN {"API error (4", "error (4"} ELSE {})
           \cup TextFragments(err.text)
    [] err.kind = "scene_no_image" -> {}
    [] err.kind = "scene_generic"  -> {"failed"}
    [] err.kind = "create_5xx"   -> {}
    [] err.kind = "create_http"  ->
         (IF StatusStartsWith4(err.status) THEN {"error (4"} ELSE {})
           \cup TextFragments(err.text)
    [] err.kind = "create_no_id"   -> {}
    [] err.kind = "create_generic" -> {"failed"}
    [] err.kind = "poll_exhausted" -> {"failed", "server errors"}
    [] err.kind = "poll_http"    ->
         {"poll error"}
           \cup (IF StatusStartsWith4(err.status) THEN {"error (4"} ELSE {})
           \cup TextFragments(err.text)
    [] err.kind = "no_video_url" -> {"completed"}
    [] err.kind = "business"     -> {"failed"} \cup TextFragments(err.text)
    [] err.kind = "timeout"      -> {}
    [] err.kind = "net"          -> TextFragments(err.text)
    [] err.kind = "json"         -> TextFragments(err.text)
    [] OTHER -> {}

Includes(err, needle) == needle \in Fragments(err)

ResponseOk(status) == status >= 200 /\ status <= 299

\* ------------------------------------------------------------ state

VARIABLES
  program,
  \* generateScene (imageGen.js)
  scenePc, sceneAttempt, sceneLastError, sceneRequests, sceneWaited,
  sceneLastOutcome, sceneData, sceneResult, sceneError,
  \* generateVideo (videoGen.js)
  videoPc, videoAttempt, videoLastError, createRequests, videoWaited,
  videoLastOutcome, generationId, elapsed, consecutivePollErrors, polls,
  slowPolls, failStreak, lastPoll, statusCalls, videoResult, videoError,
  \* API server (server/index.js)
  creditsUsedTotal, creditsFile, handler, creditsBefore, charges, httpResponse,
  \* React client (App.jsx)
  status, sceneImageUrl, videoUrl, error, runs,
  \* DuoCastPipeline.processConversation (duocast.ts)
  pipePc, saveIntermediateScene, savedScenePath, sceneGenTime, videoGenTime, pipeResult,
  pipeFailure, notified, pipeCall, videoInput,
  veoPc, elapsedTime, veoPolls, veoDone, veoOutcome,
  \* job-registry web server (server.ts)
  webPc, generations, attempts, operationDone, otherId, otherPc,
  \* the page of the web server (public/script.js)
  uiPc, ui, polled,
  \* one run of the two stages, in every program
  stage1, stage2, videoRequests,
  \* API server under direct requests (server/index.js)
  reqs, served, confirmed, bootFile, loaded, crashes, restarts

sceneVars == <<scenePc, sceneAttempt, sceneLastError, sceneRequests, sceneWaited,
               sceneLastOutcome, sceneData, sceneResult, sceneError>>
videoVars == <<videoPc, videoAttempt, videoLastError, createRequests, videoWaited,
               videoLastOutcome, generationId, elapsed, consecutivePollErrors, polls,
               slowPolls, failStreak, lastPoll, statusCalls, videoResult, videoError>>
serverVars == <<creditsUsedTotal, creditsFile, handler, creditsBefore, charges, httpResponse>>
clientVars == <<status, sceneImageUrl, videoUrl, error, runs>>
veoVars == <<veoPc, elapsedTime, veoPolls, veoDone, veoOutcome>>
pipeVars == <<pipePc, saveIntermediateScene, savedScenePath, sceneGenTime, videoGenTime,
              pipeResult, pipeFailure, notified, pipeCall, videoInput, veoVars>>
uiVars == <<uiPc, ui, polled>>
webVars == <<webPc, generations, attempts, operationDone, otherId, otherPc, uiVars>>
runVars == <<stage1, stage2, videoRequests>>
apiVars == <<sceneVars, videoVars, serverVars, clientVars>>

\* `confirmed`: what loadCredits returned at the first start plus the credits of
\* every call of generateScene / generateVideo that has returned since.
ledgerVars == <<reqs, served, confirmed, bootFile, loaded, crashes, restarts>>

vars == <<program, sceneVars, videoVars, serverVars, clientVars, pipeVars, webVars, runVars,
          ledgerVars>>

NoUrl == "none"
NoResult == [imageUrl |-> NoUrl, creditsUsed |-> 0]
NoVideoResult == [videoUrl |-> NoUrl, generationId |-> NoUrl, creditsUsed |-> 0]
NoResponse == [kind |-> "none", ok |-> FALSE, success |-> FALSE, url |-> NoUrl,
               creditsUsed |-> 0, creditsRemaining |-> 0, error |-> NoError]

\* ------------------------------------------------------------ generateScene

\* The bodies a 2xx scene response can carry once parsed.
SceneBodies ==
  [data0 : {"none", "empty", "url", "b64", "both"},
   images0 : {"none", "empty", "url"},
   url : BOOLEAN,
   credits : CreditValues]

NoBody == [data0 |-> "none", images0 |-> "none", url |-> FALSE, credits |-> 0]

\* What one request to the scene API can end in: a network exception, an
\* HTTP error status with a text body, a 2xx with an unparsable body, a 2xx
\* with a parsed body.
SceneResponses ==
  [cls : {"net"}, status : {0}, parsable : {FALSE}, text : NetTexts, body : {NoBody}]
    \cup [cls : {"http"}, status : Statuses \ {200}, parsable : {FALSE},
          text : RemoteTexts, body : {NoBody}]
    \cup [cls : {"http"}, status : {200}, parsable : {FALSE}, text : {JsonText}, body : {NoBody}]
    \cup [cls : {"http"}, status : {200}, parsable : {TRUE}, text : {""}, body : SceneBodies]

\* imageGen.js 71-79: the image locator of a parsed body.
ExtractImageUrl(body) ==
  IF body.data0 # "none"
    THEN CASE body.data0 \in {"url", "both"} -> "data[0].url"
           [] body.data0 = "b64" -> "data[0].b64_json"
           [] OTHER -> NoUrl
    ELSE IF body.images0 # "none"
      THEN (IF body.images0 = "url" THEN "images[0].url" ELSE NoUrl)
      ELSE IF body.url THEN "url" ELSE NoUrl

\* Lines 39-42: RETRY_DELAYS[attempt - 1] || 30000, the wait before an attempt.
RetryDelayBug(attempt) == 5000 * attempt
RetryDelay(attempt) ==
  IF attempt - 1 >= 0 /\ attempt - 1 < Len(RETRY_DELAYS)
    THEN RETRY_DELAYS[attempt] ELSE 30000

\* The for-loop's condition, attempt <= MAX_RETRIES.
SceneLoopContinuesBug(attempt) == attempt <= MAX_RETRIES + 1
SceneLoopContinues(attempt) == attempt <= MAX_RETRIES

\* The catch block's test for an error that is thrown on to the caller.
SceneCatchRethrowsBug(err) == Includes(err, "failed")
SceneCatchRethrows(err) == Includes(err, "API error (4")

\* What the try block does with a response: the error it throws (into the catch
\* block), or "continue" (the 5xx branch), or the value it returns.
SceneTry(resp) ==
  IF resp.cls = "net" THEN [act |-> "throw", err |-> Err("net", 0, resp.text), ret |-> NoResult]
  ELSE IF resp.status >= 500
    THEN [act |-> "continue", err |-> Err("scene_5xx", resp.status, ""), ret |-> NoResult]
  ELSE IF ~ResponseOk(resp.status)
    THEN [act |-> "throw", err |-> Err("scene_http", resp.status, resp.text), ret |-> NoResult]
  ELSE IF ~resp.parsable
    THEN [act |-> "throw", err |-> Err("json", 0, resp.text), ret |-> NoResult]
  ELSE IF ExtractImageUrl(resp.body) = NoUrl
    THEN [act |-> "throw", err |-> Err("scene_no_image", 0, ""), ret |-> NoResult]
  ELSE [act |-> "return", err |-> NoError,
        ret |-> [imageUrl |-> ExtractImageUrl(resp.body), creditsUsed |-> resp.body.credits]]

\* The class of an attempt's outcome (transient or not).
OutcomeClass(resp, ok) ==
  IF resp.cls = "net" THEN "network"
  ELSE IF resp.status >= 500 THEN "5xx"
  ELSE IF StatusStartsWith4(resp.status) THEN "4xx"
  ELSE IF ~ResponseOk(resp.status) THEN "other_status"
  ELSE IF ~resp.parsable THEN "unparsable"
  ELSE IF ok THEN "success" ELSE "missing_field"

TransientClasses == {"network", "5xx", "unparsable"}

\* imageGen.js 101, videoGen.js 86: throw lastError || new Error(...).
ExhaustedErrorBug(lastError, generic) == generic
ExhaustedError(lastError, generic) == IF lastError # NoError THEN lastError ELSE generic

SceneCallStart ==
  /\ scenePc' = "loop"
  /\ sceneAttempt' = 0
  /\ sceneLastError' = NoError
  /\ sceneRequests' = 0
  /\ sceneWaited' = <<>>
  /\ sceneLastOutcome' = "none"
  /\ sceneData' = NoBody
  /\ sceneResult' = NoResult
  /\ sceneError' = NoError

SceneCallClear ==
  /\ scenePc' = "idle"
  /\ sceneAttempt' = 0
  /\ sceneLastError' = NoError
  /\ sceneRequests' = 0
  /\ sceneWaited' = <<>>
  /\ sceneLastOutcome' = "none"
  /\ sceneData' = NoBody
  /\ sceneResult' = NoResult
  /\ sceneError' = NoError

\* Top of the retry loop, lines 38-53: the backoff wait, then the request.
SceneSend ==
  /\ program = "api"
  /\ scenePc = "loop"
  /\ SceneLoopContinues(sceneAttempt)
  /\ sceneWaited' = IF sceneAttempt > 0
                      THEN Append(sceneWaited, RetryDelay(sceneAttempt))
                      ELSE sceneWaited
  /\ sceneRequests' = sceneRequests + 1
  /\ scenePc' = "fetch"
  /\ UNCHANGED <<sceneAttempt, sceneLastError, sceneLastOutcome, sceneData, sceneResult,
                 sceneError>>
  /\ UNCHANGED <<program, ledgerVars, pipeVars, webVars, videoVars, serverVars, clientVars, runVars>>

\* Line 101: the loop ran out of attempts.
SceneExhausted ==
  /\ program = "api"
  /\ scenePc = "loop"
  /\ ~SceneLoopContinues(sceneAttempt)
  /\ scenePc' = "threw"
  /\ sceneError' = ExhaustedError(sceneLastError, Err("scene_generic", 0, ""))
  /\ UNCHANGED <<sceneAttempt, sceneLastError, sceneRequests, sceneWaited,
                 sceneLastOutcome, sceneData, sceneResult>>
  /\ UNCHANGED <<program, ledgerVars, pipeVars, webVars, videoVars, serverVars, clientVars, runVars>>

\* Lines 55-98: the response of one attempt.
SceneReceive ==
  /\ program = "api"
  /\ scenePc = "fetch"
  /\ \E resp \in SceneResponses :
       LET t == SceneTry(resp) IN
       /\ sceneLastOutcome' = OutcomeClass(resp, t.act = "return")
       /\ sceneData' = resp.body
       /\ CASE t.act = "return" ->
                 /\ scenePc' = "returned"
                 /\ sceneResult' = t.ret
                 /\ UNCHANGED <<sceneAttempt, sceneLastError, sceneError>>
            [] t.act = "continue" ->
                 /\ scenePc' = "loop"
                 /\ sceneLastError' = t.err
                 /\ sceneAttempt' = sceneAttempt + 1
                 /\ UNCHANGED <<sceneResult, sceneError>>
            [] t.act = "throw" /\ SceneCatchRethrows(t.err) ->
                 /\ scenePc' = "threw"
                 /\ sceneError' = t.err
                 /\ UNCHANGED <<sceneAttempt, sceneLastError, sceneResult>>
            [] OTHER ->
                 /\ scenePc' = "loop"
                 /\ sceneLastError' = t.err
                 /\ sceneAttempt' = sceneAttempt + 1
                 /\ UNCHANGED <<sceneResult, sceneError>>
  /\ UNCHANGED <<sceneRequests, sceneWaited>>
  /\ UNCHANGED <<program, ledgerVars, pipeVars, webVars, videoVars, serverVars, clientVars, runVars>>

\* ------------------------------------------------------------ generateVideo

\* Lines 89 and 129: if (onStatus) onStatus({ status, generationId }), with a
\* callback set; log holds the statuses of the calls made since the last
\* request of the call was sent.
onStatus(log, st) == Append(log, st)

\* Statuses a poll may report besides completed, failed and error: those the
\* comment of line 145 names, and one it does not ("paused").
PendingStatuses == {"queued", "generating", "waiting", "paused"}
JobStatuses == PendingStatuses \cup {"completed", "failed", "error"}

NoJob == [hasId |-> FALSE, jobStatus |-> "queued", hasUrl |-> FALSE, credits |-> 0]

CreateResponses ==
  [cls : {"net"}, status : {0}, parsable : {FALSE}, text : NetTexts, body : {NoJob}]
    \cup [cls : {"http"}, status : Statuses \ {200}, parsable : {FALSE},
          text : RemoteTexts, body : {NoJob}]
    \cup [cls : {"http"}, status : {200}, parsable : {FALSE}, text : {JsonText}, body : {NoJob}]
    \cup [cls : {"http"}, status : {200}, parsable : {TRUE}, text : {""},
          body : [hasId : BOOLEAN, jobStatus : {"queued"}, hasUrl : {FALSE}, credits : {0}]]

\* A parsed poll body: the job status, the video locator (on completed), the
\* usage data, and in `text` the remote error message ("" when absent).
PollResponses ==
  [cls : {"net"}, status : {0}, parsable : {FALSE}, text : NetTexts, body : {NoJob}]
    \cup [cls : {"http"}, status : Statuses \ {200}, parsable : {FALSE},
          text : RemoteTexts, body : {NoJob}]
    \cup [cls : {"http"}, status : {200}, parsable : {FALSE}, text : {JsonText}, body : {NoJob}]
    \cup [cls : {"http"}, status : {200}, parsable : {TRUE}, text : {""},
          body : [hasId : {TRUE}, jobStatus : PendingStatuses, hasUrl : {FALSE},
                  credits : {0}]]
    \cup [cls : {"http"}, status : {200}, parsable : {TRUE}, text : {""},
          body : [hasId : {TRUE}, jobStatus : {"completed"}, hasUrl : BOOLEAN,
                  credits : CreditValues]]
    \cup [cls : {"http"}, status : {200}, parsable : {TRUE}, text : RemoteTexts,
          body : [hasId : {TRUE}, jobStatus : {"failed", "error"}, hasUrl : {FALSE},
                  credits : {0}]]

VideoLoopContinuesBug(attempt) == attempt <= MAX_RETRIES + 1
VideoLoopContinues(attempt) == attempt <= MAX_RETRIES

VideoCatchRethrows(err) == Includes(err, "error (4")

\* videoGen.js 43-73: the create attempt's try block.
CreateTry(resp) ==
  IF resp.cls = "net" THEN [act |-> "throw", err |-> Err("net", 0, resp.text)]
  ELSE IF resp.status >= 500
    THEN [act |-> "continue", err |-> Err("create_5xx", resp.status, "")]
  ELSE IF ~ResponseOk(resp.status)
    THEN [act |-> "throw", err |-> Err("create_http", resp.status, resp.text)]
  ELSE IF ~resp.parsable
    THEN [act |-> "throw", err |-> Err("json", 0, resp.text)]
  ELSE IF ~resp.body.hasId
    THEN [act |-> "throw", err |-> Err("create_no_id", 0, "")]
  ELSE [act |-> "break", err |-> NoError]

VideoCallStart ==
  /\ videoPc' = "create_loop"
  /\ videoAttempt' = 0
  /\ videoLastError' = NoError
  /\ createRequests' = 0
  /\ videoWaited' = <<>>
  /\ videoLastOutcome' = "none"
  /\ generationId' = NoUrl
  /\ elapsed' = 0
  /\ consecutivePollErrors' = 0
  /\ polls' = 0
  /\ slowPolls' = 0
  /\ failStreak' = 0
  /\ statusCalls' = <<>>
  /\ lastPoll' = "none"
  /\ videoResult' = NoVideoResult
  /\ videoError' = NoError

VideoCallClear ==
  /\ videoPc' = "idle"
  /\ videoAttempt' = 0
  /\ videoLastError' = NoError
  /\ createRequests' = 0
  /\ videoWaited' = <<>>
  /\ videoLastOutcome' = "none"
  /\ generationId' = NoUrl
  /\ elapsed' = 0
  /\ consecutivePollErrors' = 0
  /\ polls' = 0
  /\ slowPolls' = 0
  /\ failStreak' = 0
  /\ statusCalls' = <<>>
  /\ lastPoll' = "none"
  /\ videoResult' = NoVideoResult
  /\ videoError' = NoError

pollVars == <<elapsed, consecutivePollErrors, polls, slowPolls, failStreak, lastPoll>>

\* Lines 36-51: the backoff wait, then the create request.
VideoCreateSend ==
  /\ program = "api"
  /\ videoPc = "create_loop"
  /\ VideoLoopContinues(videoAttempt)
  /\ videoWaited' = IF videoAttempt > 0
                      THEN Append(videoWaited, RetryDelay(videoAttempt))
                      ELSE videoWaited
  /\ createRequests' = createRequests + 1
  /\ videoPc' = "create_fetch"
  /\ UNCHANGED <<videoAttempt, videoLastError, videoLastOutcome, generationId,
                 pollVars, statusCalls, videoResult, videoError>>
  /\ UNCHANGED <<program, ledgerVars, pipeVars, webVars, sceneVars, serverVars, clientVars, runVars>>

\* Lines 85-87: the loop ended without a task identifier.
VideoCreateExhausted ==
  /\ program = "api"
  /\ videoPc = "create_loop"
  /\ ~VideoLoopContinues(videoAttempt)
  /\ videoPc' = "threw"
  /\ videoError' = ExhaustedError(videoLastError, Err("create_generic", 0, ""))
  /\ UNCHANGED <<videoAttempt, videoLastError, createRequests, videoWaited,
                 videoLastOutcome, generationId, pollVars, statusCalls, videoResult>>
  /\ UNCHANGED <<program, ledgerVars, pipeVars, webVars, sceneVars, serverVars, clientVars, runVars>>

\* Lines 53-82, and 89-93 after the break.
VideoCreateReceive ==
  /\ program = "api"
  /\ videoPc = "create_fetch"
  /\ \E resp \in CreateResponses :
       LET t == CreateTry(resp) IN
       /\ CASE t.act = "break" ->
                 \* the create loop's locals (attempt, lastError) end with the
                 \* loop; polling starts with the task identifier alone
                 /\ videoPc' = "poll_head"
                 /\ generationId' = "job-1"
                 /\ videoAttempt' = 0
                 /\ videoLastError' = NoError
                 /\ createRequests' = 0
                 /\ videoWaited' = <<>>
                 /\ videoLastOutcome' = "none"
                 /\ statusCalls' = onStatus(statusCalls, "queued")
                 /\ UNCHANGED videoError
            [] t.act = "continue" ->
                 /\ videoPc' = "create_loop"
                 /\ videoLastError' = t.err
                 /\ videoAttempt' = videoAttempt + 1
                 /\ videoLastOutcome' = OutcomeClass(resp, FALSE)
                 /\ UNCHANGED <<generationId, videoError, createRequests, videoWaited,
                                statusCalls>>
            [] t.act = "throw" /\ VideoCatchRethrows(t.err) ->
                 /\ videoPc' = "threw"
                 /\ videoError' = t.err
                 /\ videoLastOutcome' = OutcomeClass(resp, FALSE)
                 /\ UNCHANGED <<videoAttempt, videoLastError, generationId,
                                createRequests, videoWaited, statusCalls>>
            [] OTHER ->
                 /\ videoPc' = "create_loop"
                 /\ videoLastError' = t.err
                 /\ videoAttempt' = videoAttempt + 1
                 /\ videoLastOutcome' = OutcomeClass(resp, FALSE)
                 /\ UNCHANGED <<generationId, videoError, createRequests, videoWaited,
                                statusCalls>>
  /\ UNCHANGED <<pollVars, videoResult>>
  /\ UNCHANGED <<program, ledgerVars, pipeVars, webVars, sceneVars, serverVars, clientVars, runVars>>

\* ------------------------------------------------------------ generateVideo: polling

\* Line 95: the while-loop's condition.
PollLoopContinuesBug(t) == t < TIMEOUT_MS - POLL_INTERVAL_MS
PollLoopContinues(t) == t < TIMEOUT_MS

\* Lines 114 and 155: the test that ends polling after consecutive failures.
PollErrorsExhausted(n) == n >= POLL_ERROR_LIMIT

\* Lines 147-152: the catch block's tests for an error thrown on to the caller.
PollCatchRethrowsBug(err) ==
  Includes(err, "poll error") /\ ~Includes(err, "server errors")
PollCatchRethrowsFailed(err) ==
  \/ Includes(err, "poll error") /\ ~Includes(err, "server errors")
  \/ Includes(err, "failed")
PollCatchRethrows(err) ==
  \/ Includes(err, "poll error") /\ ~Includes(err, "server errors")
  \/ Includes(err, "failed") \/ Includes(err, "completed")

\* Lines 110-129: the calls of the callback one poll makes; line 129 is
\* reached when the response is below 500, ok, and its body has been parsed.
PollStatusCallsBug(resp, log) ==
  IF resp.cls = "http" /\ resp.status < 500 /\ ResponseOk(resp.status) /\ resp.parsable
       /\ resp.body.jobStatus \in PendingStatuses
    THEN onStatus(log, resp.body.jobStatus) ELSE log
PollStatusCalls(resp, log) ==
  IF resp.cls = "http" /\ resp.status < 500 /\ ResponseOk(resp.status) /\ resp.parsable
    THEN onStatus(log, resp.body.jobStatus) ELSE log

\* Lines 98-145: the try block of one poll, given the counter before it:
\* what it does, the error it throws, and the counter as it leaves it.
PollTry(resp, n) ==
  IF resp.cls = "net"
    THEN [act |-> "throw", err |-> Err("net", 0, resp.text), n |-> n]
  ELSE IF resp.status >= 500
    THEN IF PollErrorsExhausted(n + 1)
           THEN [act |-> "throw", err |-> Err("poll_exhausted", 0, ""), n |-> n + 1]
           ELSE [act |-> "continue", err |-> NoError, n |-> n + 1]
  ELSE IF ~ResponseOk(resp.status)
    THEN [act |-> "throw", err |-> Err("poll_http", resp.status, resp.text), n |-> n]
  ELSE IF ~resp.parsable
    THEN [act |-> "throw", err |-> Err("json", 0, resp.text), n |-> 0]
  ELSE IF resp.body.jobStatus = "completed"
    THEN IF ~resp.body.hasUrl
           THEN [act |-> "throw", err |-> Err("no_video_url", 0, ""), n |-> 0]
           ELSE [act |-> "return", err |-> NoError, n |-> 0]
  ELSE IF resp.body.jobStatus \in {"failed", "error"}
    THEN [act |-> "throw",
          err |-> Err("business", 0, IF resp.text = "" THEN "Unknown error" ELSE resp.text),
          n |-> 0]
  ELSE [act |-> "continue", err |-> NoError, n |-> 0]

\* The class of a poll's outcome.
PollClass(resp) ==
  IF resp.cls = "net" THEN "network"
  ELSE IF resp.status >= 500 THEN "5xx"
  ELSE IF StatusStartsWith4(resp.status) THEN "4xx"
  ELSE IF ~ResponseOk(resp.status) THEN "other_status"
  ELSE IF ~resp.parsable THEN "unparsable"
  ELSE IF resp.body.jobStatus = "completed"
    THEN (IF resp.body.hasUrl THEN "completed" ELSE "completed_no_url")
  ELSE IF resp.body.jobStatus \in {"failed", "error"} THEN "failed"
  ELSE "pending"

\* Lines 95-108: the loop's condition holds; the wait, then the poll request.
PollSend ==
  /\ program = "api"
  /\ videoPc = "poll_head"
  /\ PollLoopContinues(elapsed)
  /\ elapsed' = elapsed + POLL_INTERVAL_MS
  /\ polls' = polls + 1
  /\ videoPc' = "poll_fetch"
  /\ statusCalls' = <<>>
  /\ UNCHANGED <<videoAttempt, videoLastError, createRequests, videoWaited,
                 videoLastOutcome, generationId, consecutivePollErrors, slowPolls, failStreak,
                 lastPoll, videoResult, videoError>>
  /\ UNCHANGED <<program, ledgerVars, pipeVars, webVars, sceneVars, serverVars, clientVars, runVars>>

\* Line 159: the ceiling has elapsed at the loop's condition.
PollTimeout ==
  /\ program = "api"
  /\ videoPc = "poll_head"
  /\ ~PollLoopContinues(elapsed)
  /\ videoPc' = "threw"
  /\ videoError' = Err("timeout", 0, "")
  /\ UNCHANGED <<videoAttempt, videoLastError, createRequests, videoWaited,
                 videoLastOutcome, generationId, pollVars, statusCalls, videoResult>>
  /\ UNCHANGED <<program, ledgerVars, pipeVars, webVars, sceneVars, serverVars, clientVars, runVars>>

\* Lines 110-156: the response of one poll, at once or after SlowPollMs.
PollReceive ==
  /\ program = "api"
  /\ videoPc = "poll_fetch"
  /\ \E resp \in PollResponses, slow \in BOOLEAN :
       LET t == PollTry(resp, consecutivePollErrors)
           cls == PollClass(resp) IN
       /\ slow => slowPolls < MaxSlowPolls
       /\ slowPolls' = IF slow THEN slowPolls + 1 ELSE slowPolls
       /\ elapsed' = IF slow THEN elapsed + SlowPollMs ELSE elapsed
       /\ lastPoll' = cls
       /\ statusCalls' = PollStatusCalls(resp, statusCalls)
       /\ failStreak' = IF cls \in {"network", "5xx"} THEN failStreak + 1 ELSE 0
       /\ CASE t.act = "return" ->
                 /\ videoPc' = "returned"
                 /\ videoResult' = [videoUrl |-> "video.url", generationId |-> generationId,
                                    creditsUsed |-> resp.body.credits]
                 /\ consecutivePollErrors' = t.n
                 /\ UNCHANGED videoError
            [] t.act = "continue" ->
                 /\ videoPc' = "poll_head"
                 /\ consecutivePollErrors' = t.n
                 /\ UNCHANGED <<videoResult, videoError>>
            [] t.act = "throw" /\ PollCatchRethrows(t.err) ->
                 /\ videoPc' = "threw"
                 /\ videoError' = t.err
                 /\ consecutivePollErrors' = t.n
                 /\ UNCHANGED videoResult
            [] OTHER ->
                 /\ consecutivePollErrors' = t.n + 1
                 /\ IF PollErrorsExhausted(t.n + 1)
                      THEN videoPc' = "threw" /\ videoError' = t.err
                      ELSE videoPc' = "poll_head" /\ UNCHANGED videoError
                 /\ UNCHANGED videoResult
  /\ UNCHANGED <<videoAttempt, videoLastError, createRequests, videoWaited,
                 videoLastOutcome, generationId, polls>>
  /\ UNCHANGED <<program, ledgerVars, pipeVars, webVars, sceneVars, serverVars, clientVars, runVars>>

\* ------------------------------------------------------------ API server: the ledger

AbsentFile == [state |-> "absent", startingCredits |-> 0, creditsUsed |-> 0,
               creditsRemaining |-> 0]

\* saveCredits: the record written to credits.json (lastUpdated left out).
CreditsRecordBug(total) ==
  [state |-> "ok", startingCredits |-> STARTING_CREDITS, creditsUsed |-> total,
   creditsRemaining |-> STARTING_CREDITS]
CreditsRecord(total) ==
  [state |-> "ok", startingCredits |-> STARTING_CREDITS, creditsUsed |-> total,
   creditsRemaining |-> STARTING_CREDITS - total]

\* loadCredits: data.creditsUsed || 0 of a readable file, 0 otherwise.
loadCreditsFresh(file) == 0
loadCreditsBug(file) == file.creditsUsed
loadCredits(file) == IF file.state = "ok" THEN file.creditsUsed ELSE 0

\* The credits.json files the server may find when it starts.
InitialFiles == {AbsentFile}

\* Lines 345-349 and 392-396: the charge for a call that returned `credits`.
ChargedTotalBug(total, credits, requests) == total + credits * requests
ChargedTotalRefund(total, credits, requests) == total - credits
ChargedTotal(total, credits, requests) == total + credits

\* ------------------------------------------------------------ API server: handlers

ErrorResponse(kind, code, err) ==
  [kind |-> kind, ok |-> ResponseOk(code), success |-> FALSE, url |-> NoUrl,
   creditsUsed |-> 0, creditsRemaining |-> 0, error |-> err]

\* POST /api/generate-scene, lines 342-360: generateScene has returned or thrown.
SceneHandlerFinish ==
  /\ program = "api"
  /\ handler = "scene"
  /\ scenePc \in {"returned", "threw"}
  /\ handler' = "idle"
  /\ IF scenePc = "returned"
       THEN LET c == sceneResult.creditsUsed
                total == IF c # 0 THEN ChargedTotal(creditsUsedTotal, c, sceneRequests)
                         ELSE creditsUsedTotal IN
            /\ creditsUsedTotal' = total
            /\ creditsFile' = IF c # 0 THEN CreditsRecord(total) ELSE creditsFile
            /\ charges' = IF c # 0 THEN charges + 1 ELSE charges
            /\ httpResponse' = [kind |-> "scene", ok |-> TRUE, success |-> TRUE,
                                url |-> sceneResult.imageUrl, creditsUsed |-> c,
                                creditsRemaining |-> STARTING_CREDITS - total,
                                error |-> NoError]
            /\ stage1' = "success"
       ELSE /\ httpResponse' = ErrorResponse("scene", 500, sceneError)
            /\ stage1' = "failed"
            /\ UNCHANGED <<creditsUsedTotal, creditsFile, charges>>
  /\ UNCHANGED <<creditsBefore, stage2, videoRequests>>
  /\ UNCHANGED <<program, ledgerVars, pipeVars, webVars, sceneVars, videoVars, clientVars>>

\* POST /api/generate-video, lines 381-408: generateVideo has returned or thrown.
VideoHandlerFinish ==
  /\ program = "api"
  /\ handler = "video"
  /\ videoPc \in {"returned", "threw"}
  /\ handler' = "idle"
  /\ IF videoPc = "returned"
       THEN LET c == videoResult.creditsUsed
                total == IF c # 0 THEN ChargedTotal(creditsUsedTotal, c, polls)
                         ELSE creditsUsedTotal IN
            /\ creditsUsedTotal' = total
            /\ creditsFile' = IF c # 0 THEN CreditsRecord(total) ELSE creditsFile
            /\ charges' = IF c # 0 THEN charges + 1 ELSE charges
            /\ httpResponse' = [kind |-> "video", ok |-> TRUE, success |-> TRUE,
                                url |-> videoResult.videoUrl, creditsUsed |-> c,
                                creditsRemaining |-> STARTING_CREDITS - total,
                                error |-> NoError]
            /\ stage2' = "success"
       ELSE /\ httpResponse' = ErrorResponse("video", 500, videoError)
            /\ stage2' = "failed"
            /\ UNCHANGED <<creditsUsedTotal, creditsFile, charges>>
  /\ UNCHANGED <<creditsBefore, stage1, videoRequests>>
  /\ UNCHANGED <<program, ledgerVars, pipeVars, webVars, sceneVars, videoVars, clientVars>>

\* ------------------------------------------------------------ React client (App.jsx)

\* Line 67 (and 95): the response is taken as a failure.
ClientSeesFailureBug(resp) == FALSE
ClientSeesFailure(resp) == ~resp.ok \/ ~resp.success

\* handleGenerate, lines 46-63, up to the scene request; the server takes the
\* request (its fields are present: canGenerate) and calls generateScene.
HandleGenerate ==
  /\ program = "api"
  /\ status = "idle"
  /\ runs < MaxRuns
  /\ runs' = runs + 1
  /\ status' = "generating-scene"
  /\ error' = NoError
  /\ sceneImageUrl' = NoUrl
  /\ videoUrl' = NoUrl
  /\ handler' = "scene"
  /\ creditsBefore' = creditsUsedTotal
  /\ charges' = 0
  /\ httpResponse' = NoResponse
  /\ SceneCallStart
  /\ stage1' = "pending"
  /\ stage2' = "none"
  /\ videoRequests' = 0
  /\ UNCHANGED <<creditsUsedTotal, creditsFile>>
  /\ UNCHANGED <<program, ledgerVars, pipeVars, webVars, videoVars>>

\* handleGenerate, lines 65-91: the scene response; on success the video request,
\* which the server takes and answers by calling generateVideo.
ClientSceneResponse ==
  /\ program = "api"
  /\ status = "generating-scene"
  /\ httpResponse.kind = "scene"
  /\ SceneCallClear
  /\ IF ClientSeesFailure(httpResponse)
       THEN /\ status' = "error"
            /\ error' = httpResponse.error
            /\ httpResponse' = NoResponse
            /\ UNCHANGED <<sceneImageUrl, handler, creditsBefore, charges, videoVars, stage2,
                           videoRequests>>
       ELSE /\ sceneImageUrl' = httpResponse.url
            /\ status' = "generating-video"
            /\ videoRequests' = videoRequests + 1
            /\ stage2' = "pending"
            /\ creditsBefore' = creditsUsedTotal
            /\ charges' = 0
            /\ UNCHANGED error
            /\ IF httpResponse.url = NoUrl
                 \* server lines 373-375: no scene image URL in the request
                 THEN /\ httpResponse' = ErrorResponse("video", 400, Err("invalid", 400, ""))
                      /\ UNCHANGED <<handler, videoVars>>
                 ELSE /\ handler' = "video"
                      /\ httpResponse' = NoResponse
                      /\ VideoCallStart
  /\ UNCHANGED <<videoUrl, runs, creditsUsedTotal, creditsFile, stage1,
                 program, ledgerVars, pipeVars, webVars>>

\* handleGenerate, lines 93-109: the video response.
ClientVideoResponse ==
  /\ program = "api"
  /\ status = "generating-video"
  /\ httpResponse.kind = "video"
  /\ VideoCallClear
  /\ httpResponse' = NoResponse
  /\ IF ClientSeesFailure(httpResponse)
       THEN /\ status' = "error"
            /\ error' = httpResponse.error
            /\ UNCHANGED videoUrl
       ELSE /\ videoUrl' = httpResponse.url
            /\ status' = "done"
            /\ UNCHANGED error
  /\ UNCHANGED <<sceneImageUrl, runs, creditsUsedTotal, creditsFile, handler,
                 creditsBefore, charges, runVars, program, ledgerVars, pipeVars, webVars, sceneVars>>

\* App.jsx 264-267: the states in which the button that calls handleReset is
\* rendered.
CanResetBug(st) == st # "idle"
CanReset(st) == st \in {"done", "error"}

\* handleReset, lines 112-118.
HandleReset ==
  /\ program = "api"
  /\ CanReset(status)
  /\ status' = "idle"
  /\ sceneImageUrl' = NoUrl
  /\ videoUrl' = NoUrl
  /\ error' = NoError
  /\ stage1' = "none"
  /\ stage2' = "none"
  /\ videoRequests' = 0
  /\ UNCHANGED <<runs, program, ledgerVars, pipeVars, webVars, sceneVars, videoVars, serverVars>>

\* ------------------------------------------------------------ DuoCastPipeline (duocast.ts)

NoPath == ""
ScenePath == "output/scene.png"
VideoPath == "output/conversation.mp4"

\* Date.now() differences, in ms.
DurationsMs == {0, 1200}

NoPipelineResult ==
  [success |-> FALSE, videoPath |-> NoPath, scenePath |-> NoPath, error |-> "",
   sceneGenerationMs |-> 0, videoGenerationMs |-> 0]

\* What a call of a generation service (NanoBananaService.generateCompositeScene,
\* Veo3Service.generateVideo) ends in: its result, or an Error with a message.
ServiceOutcomes ==
  {[ok |-> TRUE, message |-> ""],
   [ok |-> FALSE, message |-> "API error"],
   [ok |-> FALSE, message |-> "Video generation timed out"]}

\* Lines 195-207: the result the catch block returns.
FailureResultElapsed(message, sceneMs, videoMs) ==
  [success |-> FALSE, videoPath |-> NoPath, scenePath |-> NoPath, error |-> message,
   sceneGenerationMs |-> sceneMs, videoGenerationMs |-> 1200]
FailureResultBug(message, sceneMs, videoMs) ==
  [success |-> FALSE, videoPath |-> NoPath, scenePath |-> NoPath, error |-> "",
   sceneGenerationMs |-> sceneMs, videoGenerationMs |-> videoMs]
FailureResult(message, sceneMs, videoMs) ==
  [success |-> FALSE, videoPath |-> NoPath, scenePath |-> NoPath, error |-> message,
   sceneGenerationMs |-> sceneMs, videoGenerationMs |-> videoMs]

\* ------------------------------------------------------------ Veo3Service (veo3.ts)

\* defaultConfig.pipeline, image.ts 162-163.
pollIntervalMs == 10000
maxWaitTimeMs == 600000

NoOutcome == [ok |-> FALSE, message |-> ""]

\* What a call of the SDK made by Veo3Service ends in: it returns, or throws.
SdkOutcomes == {[ok |-> TRUE, message |-> ""], [ok |-> FALSE, message |-> "API error"]}

\* veo3.ts 88: the test that ends polling, elapsedTime >= maxWaitTime.
VeoTimedOutBug(t) == t > maxWaitTimeMs
VeoTimedOut(t) == t >= maxWaitTimeMs

\* generateVideo, lines 69-86: generateVideos is called, elapsedTime = 0.
VeoCallStart ==
  /\ veoPc' = "create"
  /\ elapsedTime' = 0
  /\ veoPolls' = 0
  /\ veoDone' = FALSE
  /\ veoOutcome' = NoOutcome

\* generateVideo returns (lines 129-133) or throws (lines 134-137).
VeoEnd(out) ==
  /\ veoPc' = "ended"
  /\ veoOutcome' = out

\* Lines 87-109, from the loop's condition to the next await: the ceiling's
\* error, the wait and the next poll, or the download of the video.
VeoLoop(done, hasVideo) ==
  IF ~done
    THEN IF VeoTimedOut(elapsedTime)
           THEN /\ VeoEnd([ok |-> FALSE,
                           message |-> "Video generation timed out after 600 seconds"])
                /\ UNCHANGED <<elapsedTime, veoPolls>>
           ELSE /\ elapsedTime' = elapsedTime + pollIntervalMs
                /\ veoPolls' = veoPolls + 1
                /\ veoPc' = "poll"
                /\ UNCHANGED veoOutcome
    ELSE /\ IF ~hasVideo
              THEN VeoEnd([ok |-> FALSE, message |-> "No video in generation response"])
              ELSE veoPc' = "download" /\ UNCHANGED veoOutcome
         /\ UNCHANGED <<elapsedTime, veoPolls>>

\* The variables of the pipeline a step of the video service leaves alone.
pipeCallVars == <<pipePc, saveIntermediateScene, savedScenePath, sceneGenTime, videoGenTime,
                  pipeResult, pipeFailure, notified, pipeCall, videoInput>>

\* Lines 69-87: generateVideos has returned an operation, or thrown.
VeoCreated ==
  /\ program = "cli"
  /\ veoPc = "create"
  /\ \E out \in SdkOutcomes, done \in BOOLEAN, hasVideo \in BOOLEAN :
       IF ~out.ok
         THEN VeoEnd(out) /\ UNCHANGED <<elapsedTime, veoPolls, veoDone>>
         ELSE veoDone' = done /\ VeoLoop(done, hasVideo)
  /\ UNCHANGED <<pipeCallVars, runVars>>
  /\ UNCHANGED <<program, ledgerVars, apiVars, webVars>>

\* Lines 99-102: getVideosOperation has returned the operation, or thrown.
VeoPolled ==
  /\ program = "cli"
  /\ veoPc = "poll"
  /\ \E out \in SdkOutcomes, done \in BOOLEAN, hasVideo \in BOOLEAN :
       IF ~out.ok
         THEN VeoEnd(out) /\ UNCHANGED <<elapsedTime, veoPolls, veoDone>>
         ELSE veoDone' = done /\ VeoLoop(done, hasVideo)
  /\ UNCHANGED <<pipeCallVars, runVars>>
  /\ UNCHANGED <<program, ledgerVars, apiVars, webVars>>

\* Lines 120-133: files.download has returned, or thrown.
VeoDownloaded ==
  /\ program = "cli"
  /\ veoPc = "download"
  /\ \E out \in SdkOutcomes : VeoEnd(out)
  /\ UNCHANGED <<elapsedTime, veoPolls, veoDone>>
  /\ UNCHANGED <<pipeCallVars, runVars>>
  /\ UNCHANGED <<program, ledgerVars, apiVars, webVars>>

\* Polls of generateVideoFromText followed in the model.
MaxTextPolls == 61

\* generateVideoFromText, lines 176-190, from the loop's condition to the next
\* await: the wait and the next poll, or the download of the video.
TextLoop(done, hasVideo) ==
  IF ~done
    THEN /\ veoPolls < MaxTextPolls
         /\ elapsedTime' = elapsedTime + pollIntervalMs
         /\ veoPolls' = veoPolls + 1
         /\ veoPc' = "text_poll"
         /\ UNCHANGED veoOutcome
    ELSE /\ IF ~hasVideo
              THEN VeoEnd([ok |-> FALSE, message |-> "No video in generation response"])
              ELSE veoPc' = "text_download" /\ UNCHANGED veoOutcome
         /\ UNCHANGED <<elapsedTime, veoPolls>>

\* generateVideoFromText, lines 145-172: generateVideos is called.
GenerateVideoFromText ==
  /\ program = "cli"
  /\ pipePc = "idle"
  /\ pipePc' = "text_video"
  /\ pipeCall' = "generateVideoFromText"
  /\ veoPc' = "text_create"
  /\ elapsedTime' = 0
  /\ veoPolls' = 0
  /\ veoDone' = FALSE
  /\ veoOutcome' = NoOutcome
  /\ UNCHANGED <<saveIntermediateScene, savedScenePath, sceneGenTime, videoGenTime,
                 pipeResult, pipeFailure, notified, videoInput, runVars>>
  /\ UNCHANGED <<program, ledgerVars, apiVars, webVars>>

\* Lines 163-177: generateVideos has returned an operation, or thrown.
TextCreated ==
  /\ program = "cli"
  /\ veoPc = "text_create"
  /\ \E out \in SdkOutcomes, done \in BOOLEAN, hasVideo \in BOOLEAN :
       IF ~out.ok
         THEN VeoEnd(out) /\ UNCHANGED <<elapsedTime, veoPolls, veoDone>>
         ELSE veoDone' = done /\ TextLoop(done, hasVideo)
  /\ UNCHANGED <<pipeCallVars, runVars>>
  /\ UNCHANGED <<program, ledgerVars, apiVars, webVars>>

\* Lines 176-184: getVideosOperation has returned the operation, or thrown.
TextPolled ==
  /\ program = "cli"
  /\ veoPc = "text_poll"
  /\ \E out \in SdkOutcomes, done \in BOOLEAN, hasVideo \in BOOLEAN :
       IF ~out.ok
         THEN VeoEnd(out) /\ UNCHANGED <<elapsedTime, veoPolls, veoDone>>
         ELSE veoDone' = done /\ TextLoop(done, hasVideo)
  /\ UNCHANGED <<pipeCallVars, runVars>>
  /\ UNCHANGED <<program, ledgerVars, apiVars, webVars>>

\* Lines 197-214: files.download has returned, or thrown.
TextDownloaded ==
  /\ program = "cli"
  /\ veoPc = "text_download"
  /\ \E out \in SdkOutcomes : VeoEnd(out)
  /\ UNCHANGED <<elapsedTime, veoPolls, veoDone>>
  /\ UNCHANGED <<pipeCallVars, runVars>>
  /\ UNCHANGED <<program, ledgerVars, apiVars, webVars>>

\* ------------------------------------------------------------ DuoCastPipeline: the calls

\* DuoCastPipeline.progress, lines 71-75, with a callback set: the callback is
\* called with the stage and the message; log is the sequence of its calls.
progress(log, stage, message) == Append(log, [stage |-> stage, message |-> message])

\* Lines 86-129: validation, then the scene service is called.
ProcessConversation ==
  /\ program = "cli"
  /\ pipePc = "idle"
  /\ \E aExists \in BOOLEAN, bExists \in BOOLEAN, save \in BOOLEAN :
       /\ saveIntermediateScene' = save
       /\ IF ~aExists \/ ~bExists
            THEN /\ pipePc' = "returned"
                 /\ pipeResult' = FailureResult(IF ~aExists THEN "Portrait A not found"
                                                ELSE "Portrait B not found", 0, 0)
                 /\ pipeFailure' = (IF ~aExists THEN "Portrait A not found"
                                    ELSE "Portrait B not found")
                 /\ UNCHANGED <<stage1, notified>>
            ELSE /\ pipePc' = "scene"
                 /\ stage1' = "pending"
                 /\ notified' = progress(progress(notified, "validation",
                                                  "Input validation complete"),
                                         "scene", "Starting scene generation...")
                 /\ UNCHANGED <<pipeResult, pipeFailure>>
  /\ pipeCall' = "processConversation"
  /\ UNCHANGED <<savedScenePath, sceneGenTime, videoGenTime, stage2, videoRequests, videoInput,
                 veoVars>>
  /\ UNCHANGED <<program, ledgerVars, apiVars, webVars>>

\* Lines 121-163: the scene service has returned or thrown; on success the
\* scene is saved (unless saveIntermediateScene is false) and the video service
\* is called.
PipelineSceneDone ==
  /\ program = "cli"
  /\ pipePc = "scene"
  /\ \E out \in ServiceOutcomes, ms \in DurationsMs, writeOk \in BOOLEAN :
       IF ~out.ok
         THEN /\ pipePc' = "returned"
              /\ pipeResult' = FailureResult(out.message, sceneGenTime, videoGenTime)
              /\ pipeFailure' = out.message
              /\ stage1' = "failed"
              /\ UNCHANGED <<savedScenePath, sceneGenTime, stage2, videoRequests, notified,
                             videoInput, veoVars>>
         ELSE /\ sceneGenTime' = ms
              /\ stage1' = "success"
              /\ IF saveIntermediateScene /\ ~writeOk
                   THEN /\ pipePc' = "returned"
                        /\ pipeResult' = FailureResult("EACCES: permission denied", ms,
                                                       videoGenTime)
                        /\ pipeFailure' = "EACCES: permission denied"
                        /\ notified' = progress(notified, "scene", "Scene generated")
                        /\ UNCHANGED <<savedScenePath, stage2, videoRequests, videoInput,
                                       veoVars>>
                   ELSE /\ savedScenePath' = IF saveIntermediateScene THEN ScenePath
                                             ELSE NoPath
                        /\ pipePc' = "video"
                        /\ stage2' = "pending"
                        /\ videoRequests' = videoRequests + 1
                        /\ videoInput' = "sceneResult.imageData"
                        /\ VeoCallStart
                        /\ notified' = progress(progress(notified, "scene",
                                                         "Scene generated"),
                                                "video", "Starting video generation...")
                        /\ UNCHANGED <<pipeResult, pipeFailure>>
  /\ UNCHANGED <<saveIntermediateScene, videoGenTime, pipeCall>>
  /\ UNCHANGED <<program, ledgerVars, apiVars, webVars>>

\* Lines 152-207: the video service has returned or thrown.
PipelineVideoDone ==
  /\ program = "cli"
  /\ pipePc = "video"
  /\ veoPc = "ended"
  /\ \E out \in {veoOutcome}, ms \in DurationsMs :
       IF out.ok
         THEN /\ videoGenTime' = ms
              /\ stage2' = "success"
              /\ pipeResult' = [success |-> TRUE, videoPath |-> VideoPath,
                                scenePath |-> savedScenePath, error |-> "",
                                sceneGenerationMs |-> sceneGenTime,
                                videoGenerationMs |-> ms]
              /\ notified' = progress(notified, "video", "Video generated")
              /\ UNCHANGED pipeFailure
         ELSE /\ stage2' = "failed"
              /\ pipeResult' = FailureResult(out.message, sceneGenTime, videoGenTime)
              /\ pipeFailure' = out.message
              /\ UNCHANGED <<videoGenTime, notified>>
  /\ pipePc' = "returned"
  /\ UNCHANGED <<saveIntermediateScene, savedScenePath, sceneGenTime, stage1, videoRequests,
                 pipeCall, videoInput, veoVars>>
  /\ UNCHANGED <<program, ledgerVars, apiVars, webVars>>

\* The scenePath argument of processWithExistingScene.
SuppliedScenePath == "input/scene.png"

\* processWithExistingScene, lines 246-255: the result returned on success.
ExistingSceneResultBug(scenePath, videoPath, ms) ==
  [success |-> TRUE, videoPath |-> videoPath, scenePath |-> NoPath, error |-> "",
   sceneGenerationMs |-> ms, videoGenerationMs |-> ms]
ExistingSceneResult(scenePath, videoPath, ms) ==
  [success |-> TRUE, videoPath |-> videoPath, scenePath |-> scenePath, error |-> "",
   sceneGenerationMs |-> 0, videoGenerationMs |-> ms]

\* processWithExistingScene, lines 214-231: the scene file is read and the
\* video service is called with its contents.
ProcessWithExistingScene ==
  /\ program = "cli"
  /\ pipePc = "idle"
  /\ \E readOk \in BOOLEAN :
       IF readOk
         THEN /\ pipePc' = "existing_video"
              /\ videoInput' = "readFileSync(scenePath)"
              /\ VeoCallStart
              /\ UNCHANGED <<pipeResult, pipeFailure>>
         ELSE /\ pipePc' = "returned"
              /\ pipeResult' = FailureResult("ENOENT: no such file", 0, 0)
              /\ pipeFailure' = "ENOENT: no such file"
              /\ UNCHANGED <<videoInput, veoVars>>
  /\ pipeCall' = "processWithExistingScene"
  /\ UNCHANGED <<saveIntermediateScene, savedScenePath, sceneGenTime, videoGenTime, runVars,
                 notified>>
  /\ UNCHANGED <<program, ledgerVars, apiVars, webVars>>

\* processWithExistingScene, lines 231-269: the video service has returned
\* (durationMs) or thrown.
ExistingSceneVideoDone ==
  /\ program = "cli"
  /\ pipePc = "existing_video"
  /\ veoPc = "ended"
  /\ \E out \in {veoOutcome}, ms \in DurationsMs :
       IF out.ok
         THEN /\ pipeResult' = ExistingSceneResult(SuppliedScenePath, VideoPath, ms)
              /\ UNCHANGED pipeFailure
         ELSE /\ pipeResult' = FailureResult(out.message, 0, 0)
              /\ pipeFailure' = out.message
  /\ pipePc' = "returned"
  /\ UNCHANGED <<saveIntermediateScene, savedScenePath, sceneGenTime, videoGenTime, runVars,
                 notified, pipeCall, videoInput, veoVars>>
  /\ UNCHANGED <<program, ledgerVars, apiVars, webVars>>

\* ------------------------------------------------------------ web server (server.ts)

\* Date.now().toString() of the request: the millisecond in which the handler
\* of the run that is followed step by step reads the clock.
JobIds == {"1700000000000"}

\* Date.now().toString() of a second request handled while that run is
\* registered: the clock shows the same millisecond or a later one.
OtherJobIds == JobIds \cup {"1700000000001"}

NoJobId == ""

maxAttempts == 60

MissingJob == [status |-> "missing", progress |-> "", scenePath |-> NoPath,
               videoPath |-> NoPath, error |-> ""]

NoExtra == [scenePath |-> NoPath, videoPath |-> NoPath, error |-> ""]

\* processGeneration.update: generations.set(id, { status, progress, ...extra }).
update(old, st, text, extra) ==
  [status |-> st, progress |-> text, scenePath |-> extra.scenePath,
   videoPath |-> extra.videoPath, error |-> extra.error]

WebScenePath(id) == "/output/scene_.png"
WebVideoPath(id) == "/output/video_.mp4"

\* The job's record after the catch block, line 348.
Failed(old, message) ==
  update(old, "error", "Generation failed", [NoExtra EXCEPT !.error = message])

\* POST /api/generate, lines 171-207, and processGeneration up to its first
\* await (lines 229-255): the job is registered, the portraits are read and
\* the scene request is sent.
PostGenerate ==
  /\ program = "web"
  /\ webPc = "idle"
  /\ \E id \in JobIds, valid \in BOOLEAN, readOk \in BOOLEAN :
       IF ~valid
         THEN /\ webPc' = "rejected"
              /\ UNCHANGED <<generations, stage1>>
         ELSE LET pending == update(generations[id], "pending", "Starting...", NoExtra)
                  scene == update(pending, "scene", "Generating composite scene...", NoExtra)
              IN IF readOk
                   THEN /\ generations' = [generations EXCEPT ![id] = scene]
                        /\ webPc' = "scene"
                        /\ stage1' = "pending"
                   ELSE /\ generations' = [generations EXCEPT ![id] =
                                             Failed(scene, "ENOENT: no such file")]
                        /\ webPc' = "finished"
                        /\ stage1' = "failed"
  /\ UNCHANGED <<attempts, operationDone, stage2, videoRequests>>
  /\ UNCHANGED <<program, ledgerVars, apiVars, pipeVars, otherId, otherPc, uiVars>>

\* Lines 245-306: the scene response; the image is extracted and saved, the
\* job is updated twice and the video request is sent.
WebSceneDone ==
  /\ program = "web"
  /\ webPc = "scene"
  /\ \E id \in JobIds, out \in SdkOutcomes, hasImage \in BOOLEAN, writeOk \in BOOLEAN :
       LET old == generations[id] IN
       IF ~out.ok \/ ~hasImage
         THEN /\ generations' = [generations EXCEPT ![id] =
                  Failed(old, IF ~out.ok THEN out.message
                              ELSE "Failed to generate scene image")]
              /\ webPc' = "finished"
              /\ stage1' = "failed"
              /\ UNCHANGED <<stage2, videoRequests>>
         ELSE IF ~writeOk
           THEN /\ generations' = [generations EXCEPT ![id] =
                    Failed(old, "EACCES: permission denied")]
                /\ webPc' = "finished"
                /\ stage1' = "failed"
                /\ UNCHANGED <<stage2, videoRequests>>
           ELSE LET saved == update(old, "scene",
                                    "Scene generated! Starting video generation...",
                                    [NoExtra EXCEPT !.scenePath = WebScenePath(id)])
                    video == update(saved, "video", "Generating video with Veo 3.1...",
                                    NoExtra)
                IN /\ generations' = [generations EXCEPT ![id] = video]
                   /\ webPc' = "video_create"
                   /\ stage1' = "success"
                   /\ stage2' = "pending"
                   /\ videoRequests' = videoRequests + 1
  /\ UNCHANGED <<attempts, operationDone>>
  /\ UNCHANGED <<program, ledgerVars, apiVars, pipeVars, otherId, otherPc, uiVars>>

\* Lines 320-349, from the end of the polling loop up to the download request.
WebAfterLoop(id, done, hasVideo) ==
  IF ~done
    THEN /\ generations' = [generations EXCEPT ![id] =
                              Failed(generations[id], "Video generation timed out")]
         /\ webPc' = "finished"
         /\ stage2' = "failed"
    ELSE IF ~hasVideo
      THEN /\ generations' = [generations EXCEPT ![id] =
                                Failed(generations[id], "No video in response")]
           /\ webPc' = "finished"
           /\ stage2' = "failed"
      ELSE /\ webPc' = "download"
           /\ UNCHANGED <<generations, stage2>>

\* One pass of the loop's head and body up to its await, lines 312-317.
WebLoop(id, done, hasVideo) ==
  IF ~done /\ attempts < maxAttempts
    THEN /\ attempts' = attempts + 1
         /\ generations' = [generations EXCEPT ![id] =
              update(generations[id], "video", "Video generating...", NoExtra)]
         /\ webPc' = "video_poll"
         /\ UNCHANGED stage2
    ELSE /\ WebAfterLoop(id, done, hasVideo)
         /\ UNCHANGED attempts

\* Lines 295-317: generateVideos has returned an operation, or thrown.
WebVideoStarted ==
  /\ program = "web"
  /\ webPc = "video_create"
  /\ \E id \in JobIds, out \in SdkOutcomes, done \in BOOLEAN, hasVideo \in BOOLEAN :
       IF ~out.ok
         THEN /\ generations' = [generations EXCEPT ![id] =
                                   Failed(generations[id], out.message)]
              /\ webPc' = "finished"
              /\ stage2' = "failed"
              /\ UNCHANGED <<attempts, operationDone>>
         ELSE /\ operationDone' = done
              /\ WebLoop(id, done, hasVideo)
  /\ UNCHANGED <<stage1, videoRequests>>
  /\ UNCHANGED <<program, ledgerVars, apiVars, pipeVars, otherId, otherPc, uiVars>>

\* Lines 312-328: getVideosOperation has returned the operation, or thrown.
WebPoll ==
  /\ program = "web"
  /\ webPc = "video_poll"
  /\ \E id \in JobIds, out \in SdkOutcomes, done \in BOOLEAN, hasVideo \in BOOLEAN :
       IF ~out.ok
         THEN /\ generations' = [generations EXCEPT ![id] =
                                   Failed(generations[id], out.message)]
              /\ webPc' = "finished"
              /\ stage2' = "failed"
              /\ UNCHANGED <<attempts, operationDone>>
         ELSE /\ operationDone' = done
              /\ WebLoop(id, done, hasVideo)
  /\ UNCHANGED <<stage1, videoRequests>>
  /\ UNCHANGED <<program, ledgerVars, apiVars, pipeVars, otherId, otherPc, uiVars>>

\* Lines 332-340: the download has ended; on success the job is completed.
WebDownloadDone ==
  /\ program = "web"
  /\ webPc = "download"
  /\ \E id \in JobIds, out \in SdkOutcomes :
       LET old == generations[id]
           complete == update(old, "complete", "Generation complete!",
                              [NoExtra EXCEPT !.scenePath = WebScenePath(id),
                                              !.videoPath = WebVideoPath(id)])
       IN IF ~out.ok
            THEN /\ generations' = [generations EXCEPT ![id] = Failed(old, out.message)]
                 /\ stage2' = "failed"
                 /\ webPc' = "finished"
            ELSE /\ generations' = [generations EXCEPT ![id] = complete]
                 /\ stage2' = "success"
                 /\ webPc' = "cleanup"
  /\ UNCHANGED <<attempts, operationDone, stage1, videoRequests>>
  /\ UNCHANGED <<program, ledgerVars, apiVars, pipeVars, otherId, otherPc, uiVars>>

\* Lines 342-349: the uploaded files are removed; unlinkSync throws into the
\* catch block when a file cannot be removed.
WebCleanup ==
  /\ program = "web"
  /\ webPc = "cleanup"
  /\ \E id \in JobIds, unlinkOk \in BOOLEAN :
       generations' = [generations EXCEPT ![id] =
                         IF unlinkOk THEN generations[id]
                         ELSE Failed(generations[id], "ENOENT: no such file")]
  /\ webPc' = "finished"
  /\ UNCHANGED <<attempts, operationDone, stage1, stage2, videoRequests>>
  /\ UNCHANGED <<program, ledgerVars, apiVars, pipeVars, otherId, otherPc, uiVars>>

\* POST /api/generate of a second client, lines 171-207, while the first run
\* is registered, and its processGeneration up to the first await: generations.set
\* at line 192 and in update at line 230 write the record under the id the
\* handler has read from the clock, whatever the registry holds there.
PostGenerateOther ==
  /\ program = "web"
  /\ webPc \notin {"idle", "rejected"}
  /\ otherPc = "none"
  /\ \E id \in OtherJobIds, readOk \in BOOLEAN :
       LET pending == update(generations[id], "pending", "Starting...", NoExtra)
           scene == update(pending, "scene", "Generating composite scene...", NoExtra)
       IN /\ otherId' = id
          /\ IF readOk
               THEN /\ generations' = [generations EXCEPT ![id] = scene]
                    /\ otherPc' = "scene"
               ELSE /\ generations' = [generations EXCEPT ![id] =
                                         Failed(scene, "ENOENT: no such file")]
                    /\ otherPc' = "finished"
  /\ UNCHANGED <<webPc, attempts, operationDone, runVars>>
  /\ UNCHANGED <<program, ledgerVars, apiVars, pipeVars, uiVars>>

\* The later updates of the second run, lines 282-349, one await at a time;
\* its polls are not counted.
OtherRunUpdate ==
  /\ program = "web"
  /\ otherPc \in {"scene", "video", "cleanup"}
  /\ \E out \in SdkOutcomes, done \in BOOLEAN :
       LET id == otherId
           old == generations[id]
       IN IF otherPc = "cleanup"
            THEN /\ generations' = [generations EXCEPT ![id] =
                                      IF out.ok THEN old ELSE Failed(old, "ENOENT: no such file")]
                 /\ otherPc' = "finished"
            ELSE IF ~out.ok
              THEN /\ generations' = [generations EXCEPT ![id] = Failed(old, out.message)]
                   /\ otherPc' = "finished"
              ELSE IF otherPc = "scene"
                THEN /\ generations' = [generations EXCEPT ![id] =
                          update(old, "video", "Generating video with Veo 3.1...", NoExtra)]
                     /\ otherPc' = "video"
                ELSE IF ~done
                  THEN /\ generations' = [generations EXCEPT ![id] =
                            update(old, "video", "Video generating...", NoExtra)]
                       /\ otherPc' = "video"
                  ELSE /\ generations' = [generations EXCEPT ![id] =
                            update(old, "complete", "Generation complete!",
                                   [NoExtra EXCEPT !.scenePath = WebScenePath(id),
                                                   !.videoPath = WebVideoPath(id)])]
                       /\ otherPc' = "cleanup"
  /\ UNCHANGED <<webPc, attempts, operationDone, otherId, runVars>>
  /\ UNCHANGED <<program, ledgerVars, apiVars, pipeVars, uiVars>>

\* ------------------------------------------------------------ the web page (script.js)

\* What the page shows: the width of the progress bar, the class of the two
\* pipeline steps, whether the error box is displayed and whether the submit
\* button is disabled.
PageLoaded == [progressFill |-> "", step1 |-> "", step2 |-> "", errorBox |-> FALSE,
               disabled |-> FALSE]

\* resetProgressUI, lines 186-198.
resetProgressUI(page) ==
  [page EXCEPT !.progressFill = "0%", !.step1 = "", !.step2 = "", !.errorBox = FALSE]

\* showError, lines 290-293.
showError(page) == [page EXCEPT !.errorBox = TRUE]

\* resetSubmitButton, lines 296-301.
resetSubmitButton(page) == [page EXCEPT !.disabled = FALSE]

\* updateUI, lines 221-288; a body without a status matches no case.
updateUI(page, data) ==
  CASE data.status = "pending" -> [page EXCEPT !.progressFill = "10%"]
    [] data.status = "scene" ->
         [page EXCEPT !.progressFill = "40%",
                      !.step1 = IF data.scenePath # NoPath THEN "complete" ELSE "active"]
    [] data.status = "video" ->
         [page EXCEPT !.progressFill = "70%", !.step1 = "complete", !.step2 = "active"]
    [] data.status = "complete" ->
         [page EXCEPT !.progressFill = "100%", !.step1 = "complete", !.step2 = "complete"]
    [] data.status = "error" ->
         IF page.progressFill \in {"40%", "10%"}
           THEN [showError(page) EXCEPT !.step1 = "error"]
           ELSE [showError(page) EXCEPT !.step2 = "error"]
    [] OTHER -> page

\* The submit handler up to its fetch, lines 117-162: without both portraits
\* it alerts and returns, else the progress is reset and the button disabled.
Submit ==
  /\ program = "web"
  /\ uiPc \in {"idle", "alerted"}
  /\ webPc = "idle"
  /\ \E files \in BOOLEAN :
       IF files
         THEN /\ ui' = [resetProgressUI(ui) EXCEPT !.disabled = TRUE]
              /\ uiPc' = "posting"
         ELSE /\ ui' = ui
              /\ uiPc' = "alerted"
  /\ UNCHANGED <<polled, webPc, generations, attempts, operationDone, otherId, otherPc, runVars>>
  /\ UNCHANGED <<program, ledgerVars, apiVars, pipeVars>>

\* The submit handler after its fetch, lines 162-182: the request has thrown,
\* or the server has answered it; with an id the polling starts.
SubmitResponse ==
  /\ program = "web"
  /\ uiPc = "posting"
  /\ webPc # "idle"
  /\ \E fetched \in BOOLEAN :
       IF fetched /\ webPc # "rejected"
         THEN /\ uiPc' = "polling"
              /\ ui' = ui
         ELSE /\ uiPc' = "stopped"
              /\ ui' = resetSubmitButton(showError(ui))
  /\ UNCHANGED <<polled, webPc, generations, attempts, operationDone, otherId, otherPc, runVars>>
  /\ UNCHANGED <<program, ledgerVars, apiVars, pipeVars>>

\* GET /api/status/:id, server.ts lines 210-216: the record, or the 404 body
\* { error: 'Generation not found' }, which has no status.
StatusBody(id) == generations[id]

\* pollStatus, lines 201-218: one status request and what follows its answer;
\* the next call is scheduled unless the status is complete or error.
PollStatus ==
  /\ program = "web"
  /\ uiPc = "polling"
  /\ \E id \in JobIds, fetched \in BOOLEAN :
       LET data == StatusBody(id) IN
       IF ~fetched
         THEN /\ ui' = resetSubmitButton(showError(ui))
              /\ uiPc' = "stopped"
              /\ polled' = "threw"
         ELSE /\ polled' = data.status
              /\ IF data.status # "complete" /\ data.status # "error"
                   THEN /\ ui' = updateUI(ui, data)
                        /\ uiPc' = "polling"
                   ELSE /\ ui' = resetSubmitButton(updateUI(ui, data))
                        /\ uiPc' = "stopped"
  /\ UNCHANGED <<webPc, generations, attempts, operationDone, otherId, otherPc, runVars>>
  /\ UNCHANGED <<program, ledgerVars, apiVars, pipeVars>>

\* The server process is started again while the run waits for a remote
\* service and the page polls: server.ts lines 157-163 build an empty registry,
\* and the run of the old process is gone.
WebRestart ==
  /\ program = "web"
  /\ uiPc = "polling"
  /\ webPc \in {"scene", "video_create", "video_poll"}
  /\ webPc' = "restarted"
  /\ generations' = [id \in OtherJobIds |-> MissingJob]
  /\ otherPc' = "finished"
  /\ UNCHANGED <<attempts, operationDone, otherId, runVars, uiVars>>
  /\ UNCHANGED <<program, ledgerVars, apiVars, pipeVars>>

\* ------------------------------------------------------------ API server under direct requests

\* In program "server" the API server (server/index.js) takes requests from
\* any client, two at a time, and is stopped and started again; what a call of
\* generateScene or generateVideo ends in is drawn here from its outcomes.

\* Requests the server handles at one time.
Slots == {1, 2}

\* Requests one behaviour sends, restarts and crashes it goes through.
MaxRequests == 3
MaxRestarts == 1
MaxCrashes == 1

\* The fields a request arrives with.
RequestFields(kind) ==
  IF kind = "scene" THEN {"all", "no_portraitA", "no_portraitB", "no_text"}
  ELSE {"all", "no_sceneImageUrl", "no_text"}

\* Errors generateScene and generateVideo throw.
ServerErrors == {Err("scene_http", 400, "invalid prompt"), Err("timeout", 0, "")}

NoRequest ==
  [kind |-> "none", pc |-> "idle", fields |-> "all", called |-> FALSE, seen |-> 0,
   credits |-> 0, code |-> 0, response |-> NoResponse]

\* Lines 327-332 and 373-378: the request has the fields the handler asks for.
RequestValidBug(kind, fields) == fields # "no_text"
RequestValid(kind, fields) == fields = "all"

\* Lines 346 and 393: creditsUsedTotal as `+=` reads it, when the call has
\* returned (`seen` is its value when the request arrived).
LedgerReadBug(current, seen) == seen
LedgerRead(current, seen) == current

\* Lines 351-356, 398-404 and 413-417: the balance given to the caller.
CreditsRemaining(total) == STARTING_CREDITS - total

\* credits.json as a crash during fs.writeFileSync leaves it: truncated, with
\* the beginning of the record.
TornFile(record) == [record EXCEPT !.state = "unparsable"]

UnreadableFile == [state |-> "unreadable", startingCredits |-> 0, creditsUsed |-> 0,
                   creditsRemaining |-> 0]

\* A credits.json that parses and holds no creditsUsed.
NoFieldFile == [state |-> "no_field", startingCredits |-> STARTING_CREDITS,
                creditsUsed |-> 0, creditsRemaining |-> STARTING_CREDITS]

\* The credits.json files the server may find when it is first started.
StartupFiles ==
  {AbsentFile, UnreadableFile, NoFieldFile, TornFile(CreditsRecord(250)),
   CreditsRecord(STARTING_CREDITS - 100)}

SlotFree(slot) == reqs[slot].pc \in {"idle", "answered"}

\* No handler is between the return of its remote call and its answer.
Quiescent == \A slot \in Slots : reqs[slot].pc \notin {"returned", "threw"}

\* Lines 324-342 and 369-390: a request arrives; the handler validates it and
\* answers 400, or calls generateScene / generateVideo.
ServerRequest ==
  /\ program = "server"
  /\ served < MaxRequests
  /\ \E slot \in Slots, kind \in {"scene", "video"} :
     \E fields \in RequestFields(kind) :
       /\ SlotFree(slot)
       /\ reqs' = [reqs EXCEPT ![slot] =
            IF RequestValid(kind, fields)
              THEN [NoRequest EXCEPT !.kind = kind, !.pc = "calling", !.fields = fields,
                                     !.called = TRUE, !.seen = creditsUsedTotal]
              ELSE [NoRequest EXCEPT !.kind = kind, !.pc = "answered", !.fields = fields,
                                     !.seen = creditsUsedTotal, !.code = 400,
                                     !.response = ErrorResponse(kind, 400,
                                                                Err("invalid", 400, ""))]]
  /\ served' = served + 1
  /\ UNCHANGED <<confirmed, bootFile, loaded, crashes, restarts>>
  /\ UNCHANGED <<program, apiVars, pipeVars, webVars, runVars>>

\* Lines 342 and 381-390: generateScene / generateVideo returns its result, with
\* the credits the remote API reports, or throws.
ServerCallEnds ==
  /\ program = "server"
  /\ \E slot \in Slots :
       /\ reqs[slot].pc = "calling"
       /\ \/ \E c \in CreditValues :
               /\ reqs' = [reqs EXCEPT ![slot].pc = "returned",
                                               ![slot].credits = c]
               /\ confirmed' = confirmed + c
          \/ \E err \in ServerErrors :
               /\ reqs' = [reqs EXCEPT ![slot].pc = "threw",
                                               ![slot].response =
                                                 ErrorResponse(reqs[slot].kind, 500, err)]
               /\ UNCHANGED confirmed
  /\ UNCHANGED <<served, bootFile, loaded, crashes, restarts>>
  /\ UNCHANGED <<program, apiVars, pipeVars, webVars, runVars>>

\* Lines 343-360 and 391-408: the rest of the handler, in one turn of the event
\* loop: the charge, saveCredits and the answer, or the catch block's answer.
ServerRespond ==
  /\ program = "server"
  /\ \E slot \in Slots :
       LET r == reqs[slot]
           total == IF r.credits # 0
                      THEN ChargedTotal(LedgerRead(creditsUsedTotal, r.seen), r.credits, 1)
                      ELSE creditsUsedTotal
       IN /\ r.pc \in {"returned", "threw"}
          /\ IF r.pc = "returned"
               THEN /\ creditsUsedTotal' = total
                    /\ creditsFile' = IF r.credits # 0 THEN CreditsRecord(total)
                                      ELSE creditsFile
                    /\ reqs' = [reqs EXCEPT
                         ![slot].pc = "answered", ![slot].code = 200,
                         ![slot].response =
                           [kind |-> r.kind, ok |-> TRUE, success |-> TRUE,
                            url |-> "url", creditsUsed |-> r.credits,
                            creditsRemaining |-> CreditsRemaining(total),
                            error |-> NoError]]
               ELSE /\ reqs' = [reqs EXCEPT ![slot].pc = "answered",
                                                    ![slot].code = 500]
                    /\ UNCHANGED <<creditsUsedTotal, creditsFile>>
  /\ UNCHANGED <<handler, creditsBefore, charges, httpResponse>>
  /\ UNCHANGED <<served, confirmed, bootFile, loaded, crashes, restarts>>
  /\ UNCHANGED <<program, sceneVars, videoVars, clientVars, pipeVars, webVars, runVars>>

\* GET /api/credits, lines 412-418.
ServerCredits ==
  /\ program = "server"
  /\ served < MaxRequests
  /\ \E slot \in Slots :
       /\ SlotFree(slot)
       /\ reqs' = [reqs EXCEPT ![slot] =
            [NoRequest EXCEPT !.kind = "credits", !.pc = "answered",
                              !.seen = creditsUsedTotal, !.code = 200,
                              !.response =
                                [kind |-> "credits", ok |-> TRUE, success |-> TRUE,
                                 url |-> NoUrl, creditsUsed |-> creditsUsedTotal,
                                 creditsRemaining |-> CreditsRemaining(creditsUsedTotal),
                                 error |-> NoError]]]
  /\ served' = served + 1
  /\ UNCHANGED <<confirmed, bootFile, loaded, crashes, restarts>>
  /\ UNCHANGED <<program, apiVars, pipeVars, webVars, runVars>>

\* Line 292, when the process starts on the file `file`.
ServerStart(file) ==
  /\ creditsFile' = file
  /\ creditsUsedTotal' = loadCredits(file)
  /\ loaded' = loadCredits(file)
  /\ bootFile' = file
  /\ reqs' = [slot \in Slots |-> NoRequest]

\* The process is stopped while no handler is about to charge, and started
\* again.
ServerRestart ==
  /\ program = "server"
  /\ restarts < MaxRestarts
  /\ Quiescent
  /\ ServerStart(creditsFile)
  /\ restarts' = restarts + 1
  /\ UNCHANGED <<served, confirmed, crashes>>
  /\ UNCHANGED <<handler, creditsBefore, charges, httpResponse>>
  /\ UNCHANGED <<program, sceneVars, videoVars, clientVars, pipeVars, webVars, runVars>>

\* The process dies after a call has returned credits and before its handler
\* has answered: before fs.writeFileSync (lines 343-346), in the middle of it
\* (line 289: the file is truncated, then written), or after it (line 348);
\* then it is started again.
ServerCrash ==
  /\ program = "server"
  /\ crashes < MaxCrashes
  /\ \E slot \in Slots, point \in {"before_write", "in_write", "after_write"} :
       LET r == reqs[slot]
           record == CreditsRecord(ChargedTotal(creditsUsedTotal, r.credits, 1))
       IN /\ r.pc = "returned" /\ r.credits # 0
          /\ ServerStart(CASE point = "before_write" -> creditsFile
                           [] point = "in_write" -> TornFile(record)
                           [] OTHER -> record)
  /\ crashes' = crashes + 1
  /\ UNCHANGED <<served, confirmed, restarts>>
  /\ UNCHANGED <<handler, creditsBefore, charges, httpResponse>>
  /\ UNCHANGED <<program, sceneVars, videoVars, clientVars, pipeVars, webVars, runVars>>

\* ------------------------------------------------------------ specification

Programs == {"api", "cli", "web", "server"}

Init ==
  /\ program \in Programs
  /\ scenePc = "idle" /\ sceneAttempt = 0 /\ sceneLastError = NoError
  /\ sceneRequests = 0 /\ sceneWaited = <<>> /\ sceneLastOutcome = "none"
  /\ sceneData = NoBody
  /\ sceneResult = NoResult /\ sceneError = NoError
  /\ videoPc = "idle" /\ videoAttempt = 0 /\ videoLastError = NoError
  /\ createRequests = 0 /\ videoWaited = <<>> /\ videoLastOutcome = "none"
  /\ generationId = NoUrl /\ elapsed = 0 /\ consecutivePollErrors = 0 /\ polls = 0
  /\ slowPolls = 0 /\ failStreak = 0 /\ lastPoll = "none" /\ statusCalls = <<>>
  /\ videoResult = NoVideoResult /\ videoError = NoError
  /\ creditsFile \in (IF program = "server" THEN StartupFiles ELSE InitialFiles)
  /\ creditsUsedTotal = loadCredits(creditsFile)
  /\ reqs = [slot \in Slots |-> NoRequest] /\ served = 0
  /\ confirmed = loadCredits(creditsFile) /\ bootFile = creditsFile
  /\ loaded = loadCredits(creditsFile) /\ crashes = 0 /\ restarts = 0
  /\ handler = "idle" /\ creditsBefore = 0 /\ charges = 0 /\ httpResponse = NoResponse
  /\ status = "idle" /\ sceneImageUrl = NoUrl /\ videoUrl = NoUrl /\ error = NoError
  /\ runs = 0
  /\ pipePc = "idle" /\ saveIntermediateScene = TRUE /\ savedScenePath = NoPath
  /\ sceneGenTime = 0 /\ videoGenTime = 0 /\ pipeResult = NoPipelineResult
  /\ pipeFailure = "" /\ notified = <<>>
  /\ pipeCall = "none" /\ videoInput = "none"
  /\ veoPc = "idle" /\ elapsedTime = 0 /\ veoPolls = 0 /\ veoDone = FALSE
  /\ veoOutcome = NoOutcome
  /\ webPc = "idle" /\ generations = [id \in OtherJobIds |-> MissingJob]
  /\ otherId = NoJobId /\ otherPc = "none"
  /\ attempts = 0 /\ operationDone = FALSE
  /\ uiPc = "idle" /\ ui = PageLoaded /\ polled = "none"
  /\ stage1 = "none" /\ stage2 = "none" /\ videoRequests = 0

Next ==
  \/ SceneSend \/ SceneExhausted \/ SceneReceive
  \/ VideoCreateSend \/ VideoCreateExhausted \/ VideoCreateReceive
  \/ PollSend \/ PollTimeout \/ PollReceive
  \/ SceneHandlerFinish \/ VideoHandlerFinish
  \/ HandleGenerate \/ ClientSceneResponse \/ ClientVideoResponse \/ HandleReset
  \/ ProcessConversation \/ PipelineSceneDone \/ PipelineVideoDone
  \/ ProcessWithExistingScene \/ ExistingSceneVideoDone
  \/ VeoCreated \/ VeoPolled \/ VeoDownloaded
  \/ GenerateVideoFromText \/ TextCreated \/ TextPolled \/ TextDownloaded
  \/ ServerRequest \/ ServerCallEnds \/ ServerRespond \/ ServerCredits
  \/ ServerRestart \/ ServerCrash
  \/ PostGenerate \/ WebSceneDone \/ WebVideoStarted \/ WebPoll \/ WebDownloadDone \/ WebCleanup
  \/ PostGenerateOther \/ OtherRunUpdate
  \/ Submit \/ SubmitResponse \/ PollStatus \/ WebRestart

Spec == Init /\ [][Next]_vars

\* One run of the client and API server (program "api"), with the steps of a call
\* of generateVideo taken whenever one is possible: every remote request
\* returns or throws, and every timer fires.
ApiNext ==
  \/ SceneSend \/ SceneExhausted \/ SceneReceive
  \/ VideoCreateSend \/ VideoCreateExhausted \/ VideoCreateReceive
  \/ PollSend \/ PollTimeout \/ PollReceive
  \/ SceneHandlerFinish \/ VideoHandlerFinish
  \/ HandleGenerate \/ ClientSceneResponse \/ ClientVideoResponse

VideoCallStep ==
  \/ VideoCreateSend \/ VideoCreateExhausted \/ VideoCreateReceive
  \/ PollSend \/ PollTimeout \/ PollReceive

VideoCallSpec == Init /\ [][ApiNext]_vars /\ WF_vars(VideoCallStep)

\* The pipeline (program "cli") and one run of the web server (program "web"),
\* with the steps of the video stage taken whenever one is possible: every
\* call of the SDK returns or throws, and every timer fires.
PollingNext ==
  \/ ProcessConversation \/ PipelineSceneDone \/ PipelineVideoDone
  \/ ProcessWithExistingScene \/ ExistingSceneVideoDone
  \/ VeoCreated \/ VeoPolled \/ VeoDownloaded
  \/ PostGenerate \/ WebSceneDone \/ WebVideoStarted \/ WebPoll \/ WebDownloadDone \/ WebCleanup

VeoStep == VeoCreated \/ VeoPolled \/ VeoDownloaded

WebRunStep == WebSceneDone \/ WebVideoStarted \/ WebPoll \/ WebDownloadDone \/ WebCleanup

PollingSpec == Init /\ [][PollingNext]_vars /\ WF_vars(VeoStep) /\ WF_vars(WebRunStep)

\* ------------------------------------------------------------ properties

\* C1: a POST /api/generate-scene call whose generateScene succeeds after k
\* failed attempts (0 <= k <= 3) with c credits reported raises
\* creditsUsedTotal by exactly c, in one charge, whatever k is; while the call
\* runs, and when it fails, the ledger stays as it was before the call.
ChargedOncePerSuccess ==
  /\ (program = "api" /\ handler = "scene") =>
       (creditsUsedTotal = creditsBefore /\ charges = 0)
  /\ (program = "api" /\ httpResponse.kind = "scene") =>
       IF httpResponse.success
         THEN /\ creditsUsedTotal = creditsBefore + sceneResult.creditsUsed
              /\ charges = (IF sceneResult.creditsUsed # 0 THEN 1 ELSE 0)
              /\ httpResponse.creditsUsed = sceneResult.creditsUsed
              /\ loadCredits(creditsFile) = creditsUsedTotal
         ELSE creditsUsedTotal = creditsBefore /\ charges = 0

\* C1 witness: the success came on the 4th request, after three failures the
\* last of which was a server error, on a ledger that held an earlier charge.
ChargedAfterThreeRetries ==
  /\ httpResponse.kind = "scene" /\ httpResponse.success
  /\ sceneRequests = MAX_RETRIES + 1
  /\ sceneLastError.kind = "scene_5xx"
  /\ sceneResult.creditsUsed = 250
  /\ creditsBefore > 0
  /\ creditsUsedTotal = creditsBefore + 250

\* C2: in generateScene and in the create phase of generateVideo a request
\* after the first is sent only when the attempt before it ended in a transient
\* failure (status >= 500, a network error, an unparsable body).
RetriesOnlyAfterTransient ==
  /\ (scenePc = "fetch" /\ sceneRequests > 1) => sceneLastOutcome \in TransientClasses
  /\ (videoPc = "create_fetch" /\ createRequests > 1) =>
       videoLastOutcome \in TransientClasses

\* C3: an attempt of generateScene or of the create phase of generateVideo
\* answered with a status in 400-499 ends the call at once: the call has
\* thrown, the error carries a 4xx status, and no backoff delay was waited
\* after the request (one delay before each request but the first).
ClientErrorEndsCall ==
  /\ sceneLastOutcome = "4xx" =>
       /\ scenePc = "threw"
       /\ sceneError.kind = "scene_http" /\ StatusStartsWith4(sceneError.status)
       /\ Len(sceneWaited) = sceneRequests - 1
  /\ videoLastOutcome = "4xx" =>
       /\ videoPc = "threw"
       /\ videoError.kind = "create_http" /\ StatusStartsWith4(videoError.status)
       /\ Len(videoWaited) = createRequests - 1
       /\ polls = 0

\* C3 witness: a 429 on the second attempt of generateScene, after one backoff.
ClientErrorOnRetry ==
  /\ sceneLastOutcome = "4xx" /\ sceneRequests = 2 /\ sceneError.status = 429
  /\ sceneWaited = <<5000>>

\* C4: one call of generateScene sends at most 4 requests and one call of
\* generateVideo at most 4 create requests.
AtMostFourAttempts ==
  /\ sceneRequests <= MAX_RETRIES + 1
  /\ createRequests <= MAX_RETRIES + 1

\* C4 witness: generateScene gave up after its 4th request, having waited the
\* three backoff delays.
FourthAttemptFailed ==
  /\ scenePc = "threw" /\ sceneRequests = MAX_RETRIES + 1
  /\ sceneWaited = RETRY_DELAYS
  /\ sceneLastOutcome \in TransientClasses

\* C5: the polling phase of generateVideo raises its consecutive-failures
\* error on the 6th consecutive transiently failed poll and not earlier.
AbortedBySixthFailure ==
  (videoPc = "threw" /\ videoError.kind = "poll_exhausted") => failStreak >= 6

\* C6: a parsed poll that reports failed or error ends generateVideo at once
\* with the business failure carrying the remote message ("Unknown error" when
\* there is none); the failure counter stands at zero and no poll follows.
BusinessFailureEndsCall ==
  lastPoll = "failed" =>
    /\ videoPc = "threw"
    /\ videoError.kind = "business"
    /\ videoError.text \in (RemoteTexts \ {""}) \cup {"Unknown error"}
    /\ consecutivePollErrors = 0

\* C6 witness: the third poll reports failed with a remote message, before the
\* ceiling, after two polls answered with a server error.
FailedOnThirdPoll ==
  /\ lastPoll = "failed" /\ videoPc = "threw" /\ polls = 3
  /\ videoError.text = "invalid prompt"
  /\ elapsed < TIMEOUT_MS

\* C7: no poll of generateVideo is started after the ceiling TIMEOUT_MS,
\* measured from the start of polling, has elapsed.
NoPollAfterCeiling ==
  [][polls' = polls + 1 => elapsed' <= TIMEOUT_MS]_vars

\* C8: in each of the three programs the video stage's request is sent only
\* after the scene stage of the run has returned success: never while the
\* scene request is pending, never after it failed.
VideoOnlyAfterSceneSuccess ==
  /\ videoRequests > 0 => stage1 = "success"
  /\ stage2 # "none" => stage1 = "success"

\* C8 witness: the React client has sent its video request.
ClientSentVideoRequest ==
  /\ program = "api" /\ status = "generating-video" /\ videoRequests = 1
  /\ stage1 = "success"

\* C9: when processConversation has saved the scene and the video stage then
\* fails, the returned result has success false, the video stage's error
\* message, and the path of the saved scene.
FailureKeepsScenePath ==
  (pipePc = "returned" /\ stage2 = "failed" /\ savedScenePath # NoPath) =>
    /\ ~pipeResult.success
    /\ pipeResult.error # ""
    /\ pipeResult.scenePath = savedScenePath

\* C10: once the scene stage of a web-server run has succeeded, the job record
\* that GET /api/status/:id returns carries scenePath.
SnapshotKeepsScenePath ==
  (program = "web" /\ stage1 = "success") =>
    \A id \in JobIds : generations[id].scenePath # NoPath
\* C11: a job record of the web server's registry that has status complete or
\* error is not changed by any later step of the run, the removal of the
\* uploaded files included.
TerminalJobUnchanged ==
  [][\A id \in JobIds \ {otherId} :
       (generations[id].status \in {"complete", "error"} /\ UNCHANGED <<otherId, otherPc>>) =>
         generations'[id] = generations[id]]_vars

\* C12: a failure of a stage ends the run in error with the message of the
\* error that caused it, never in success: processConversation and
\* processWithExistingScene return success = false with that message,
\* processGeneration leaves the job in status error with a message, and the
\* handlers of the API server answer with an error that carries the message
\* generateScene or generateVideo has thrown.
FailureReported ==
  /\ (program = "cli" /\ pipePc = "returned") =>
       IF pipeFailure # ""
         THEN /\ ~pipeResult.success
              /\ pipeResult.error = pipeFailure
              /\ pipeResult.videoPath = NoPath
         ELSE pipeResult.success
  /\ (program = "web" /\ webPc = "finished" /\ "failed" \in {stage1, stage2}) =>
       \A id \in JobIds \ {otherId} :
         /\ generations[id].status = "error"
         /\ generations[id].error # ""
         /\ generations[id].videoPath = NoPath
  /\ (program = "api" /\ httpResponse.kind = "scene" /\ scenePc = "threw") =>
       /\ ~httpResponse.ok /\ ~httpResponse.success
       /\ httpResponse.error = sceneError /\ sceneError # NoError
  /\ (program = "api" /\ httpResponse.kind = "video" /\ videoPc = "threw") =>
       /\ ~httpResponse.ok /\ ~httpResponse.success
       /\ httpResponse.error = videoError /\ videoError # NoError

\* C12 witness: processConversation returns after the video service has thrown.
VideoFailureReturned ==
  /\ program = "cli" /\ pipePc = "returned" /\ stage2 = "failed"
  /\ pipeFailure = "Video generation timed out after 600 seconds"
  /\ pipeResult.error = "Video generation timed out after 600 seconds"

\* The request of a slot has been answered with a charge.
Charged(slot) ==
  /\ reqs[slot].pc = "answered" /\ reqs[slot].kind \in {"scene", "video"}
  /\ reqs[slot].response.success /\ reqs[slot].credits # 0

\* C13: after a crash of the server and its restart the ledger holds the
\* credits of every call of generateScene / generateVideo that had returned
\* them, no more and no less.
CrashKeepsCharges ==
  (program = "server" /\ crashes > 0 /\ Quiescent) => creditsUsedTotal = confirmed

\* C14: after a charge, and whenever credits.json holds a record, the record
\* agrees with memory: creditsUsed is creditsUsedTotal, startingCredits is the
\* starting balance, creditsRemaining is startingCredits - creditsUsed.
RecordAgreesWithMemory ==
  LET agrees == /\ creditsFile.state = "ok"
                /\ creditsFile.creditsUsed = creditsUsedTotal
                /\ creditsFile.startingCredits = STARTING_CREDITS
                /\ creditsFile.creditsRemaining =
                     creditsFile.startingCredits - creditsFile.creditsUsed
  IN /\ (program = "server" /\ \E slot \in Slots : Charged(slot)) => agrees
     /\ (program = "api" /\ charges > 0) => agrees
     /\ creditsFile.state = "ok" => agrees

\* C14 witness: both handlers of the server have charged.
BothHandlersCharged ==
  /\ program = "server" /\ \A slot \in Slots : Charged(slot)
  /\ creditsFile.creditsUsed = creditsUsedTotal
  /\ creditsFile.creditsRemaining = STARTING_CREDITS - creditsUsedTotal

\* C15: after charges and a restart of the server, loadCredits returns the
\* total charged, and GET /api/credits reports it as creditsUsed.
RestartReloadsTotal ==
  (program = "server" /\ restarts > 0 /\ crashes = 0) =>
    /\ Quiescent => creditsUsedTotal = confirmed
    /\ loaded <= confirmed
    /\ (bootFile.state = "ok" /\ bootFile.creditsUsed > 0) => loaded = bootFile.creditsUsed
    /\ \A slot \in Slots :
         reqs[slot].kind = "credits" =>
           /\ reqs[slot].response.creditsUsed = reqs[slot].seen
           /\ reqs[slot].seen >= loaded

\* C15 witness: one charge of 250 on an empty store, a restart, and GET
\* /api/credits answered.
ReloadedAfterOneCharge ==
  /\ program = "server" /\ restarts = 1 /\ crashes = 0
  /\ bootFile = CreditsRecord(250) /\ loaded = 250 /\ confirmed = 250
  /\ \E slot \in Slots :
       reqs[slot].kind = "credits" /\ reqs[slot].response.creditsUsed = 250

\* C16: when two requests have ended their remote calls, in either order,
\* and have been answered, creditsUsedTotal and the persisted creditsUsed both
\* stand at the earlier total plus both charges.
NoLostUpdate ==
  (program = "server" /\ crashes = 0 /\ \A slot \in Slots : Charged(slot)) =>
    /\ creditsUsedTotal = confirmed
    /\ creditsFile.state = "ok" /\ creditsFile.creditsUsed = confirmed
    /\ creditsUsedTotal >= reqs[1].seen + reqs[1].credits
    /\ creditsUsedTotal >= reqs[2].seen + reqs[2].credits

\* C16 witness: a scene and a video request arrived on the same total, both
\* calls returned 250 credits, and the total has grown by 500.
TwoChargesInterleaved ==
  /\ program = "server" /\ \A slot \in Slots : Charged(slot)
  /\ reqs[1].kind = "scene" /\ reqs[2].kind = "video"
  /\ reqs[1].seen = reqs[2].seen
  /\ creditsUsedTotal = reqs[1].seen + 500
  /\ creditsFile.creditsUsed = creditsUsedTotal

\* C17: while the server runs, creditsUsedTotal never decreases, and a step
\* that answers a request with a failure leaves creditsUsedTotal and
\* credits.json as they were.
LedgerMonotonic ==
  [][/\ (crashes' = crashes /\ restarts' = restarts) =>
          creditsUsedTotal' >= creditsUsedTotal
     /\ \A slot \in Slots :
          (reqs'[slot] # reqs[slot] /\ reqs'[slot].pc = "answered"
             /\ ~reqs'[slot].response.success) =>
            (creditsUsedTotal' = creditsUsedTotal /\ creditsFile' = creditsFile)
     /\ (httpResponse' # httpResponse /\ httpResponse'.kind # "none"
             /\ ~httpResponse'.success) =>
            (creditsUsedTotal' = creditsUsedTotal /\ creditsFile' = creditsFile)]_vars

\* C17 witness: /api/generate-video has failed in the first run of the React
\* client, and the charge of its scene request stands.
SceneChargeStands ==
  /\ program = "api" /\ runs = 1
  /\ httpResponse.kind = "video" /\ ~httpResponse.success
  /\ creditsUsedTotal = 250 /\ creditsFile.creditsUsed = 250

\* C18: the creditsRemaining given to a caller is never negative.
RemainingNeverNegative ==
  /\ \A slot \in Slots : reqs[slot].response.creditsRemaining >= 0
  /\ httpResponse.creditsRemaining >= 0

\* C19: loadCredits returns 0 for a credits.json that is absent, unreadable,
\* not parsable or without creditsUsed, and creditsUsed otherwise; the server
\* starts on the value returned and charges from there.
StartupNeverFails ==
  program = "server" =>
    /\ loaded = (IF bootFile.state = "ok" THEN bootFile.creditsUsed ELSE 0)
    /\ loaded >= 0
    /\ creditsUsedTotal >= loaded
    /\ (served = 0 /\ crashes = 0 /\ restarts = 0) => creditsUsedTotal = loaded

\* C19 witness: the server started on an unparsable file and has charged.
StartedOnUnparsableFile ==
  /\ program = "server" /\ bootFile.state = "unparsable" /\ loaded = 0
  /\ \E slot \in Slots : Charged(slot)
  /\ creditsUsedTotal = 250

\* C20: a run with a missing portrait fails before any remote call:
\* /api/generate-scene answers 400 without calling generateScene, and
\* processConversation returns success = false with neither service called.
MissingPortraitFailsFast ==
  /\ \A slot \in Slots :
       (reqs[slot].kind = "scene"
          /\ reqs[slot].fields \in {"no_portraitA", "no_portraitB"}) =>
         /\ reqs[slot].pc = "answered" /\ reqs[slot].code = 400
         /\ ~reqs[slot].called /\ reqs[slot].credits = 0
         /\ ~reqs[slot].response.success
  /\ (program = "cli"
        /\ pipeFailure \in {"Portrait A not found", "Portrait B not found"}) =>
       /\ pipePc = "returned" /\ ~pipeResult.success
       /\ pipeResult.error = pipeFailure
       /\ stage1 = "none" /\ stage2 = "none" /\ videoRequests = 0

\* C20 witness: a scene request without portrait B has been answered.
RejectedWithoutPortrait ==
  /\ program = "server"
  /\ \E slot \in Slots :
       /\ reqs[slot].kind = "scene" /\ reqs[slot].fields = "no_portraitB"
       /\ reqs[slot].code = 400 /\ reqs[slot].seen = creditsUsedTotal

\* C21: every run started by POST /api/generate has a job id that no other
\* run has: a second request handled while a run is registered, in the same
\* millisecond included, is given an id different from that run's, so the two
\* runs write different records of the registry.
JobIdsDistinct ==
  (program = "web" /\ otherId # NoJobId) => otherId \notin JobIds

\* C22: with a progress callback set, processConversation notifies it in this
\* order: at the start of the run, at the beginning of the scene stage, at the
\* success of the scene stage, at the beginning of the video stage and at
\* completion; and a run that fails has notified it of the error, as its last
\* notification, when it returns.
ProgressInOrder ==
  (program = "cli" /\ pipePc = "returned" /\ (stage1 # "none" \/ notified # <<>>)) =>
    IF pipeFailure = ""
      THEN [i \in 1..Len(notified) |-> notified[i].stage] =
             <<"validation", "scene", "scene", "video", "video">>
      ELSE /\ notified # <<>>
           /\ notified[Len(notified)].message = pipeFailure

\* C23: consecutivePollErrors counts the polls of generateVideo that failed
\* transiently (status >= 500, network exception, 2xx with a body that cannot
\* be parsed) since the last poll that returned a parsed status: every such
\* poll after which polling goes on adds one to it, and a poll that returned
\* a parsed status leaves it at zero.
CounterCountsTransientPolls ==
  [][(videoPc = "poll_fetch" /\ videoPc' = "poll_head") =>
       /\ lastPoll' \in TransientClasses =>
            consecutivePollErrors' = consecutivePollErrors + 1
       /\ lastPoll' = "pending" => consecutivePollErrors' = 0]_vars

\* C24: a poll of generateVideo whose request throws is a transient failure
\* whatever the text of the exception: the call ends on it only when the
\* counter of consecutive failures has reached its limit.
NetworkPollTransient ==
  (lastPoll = "network" /\ videoPc = "threw" /\ videoError.kind = "net") =>
    PollErrorsExhausted(consecutivePollErrors)

\* C25: when generateScene, or the create phase of generateVideo, has made its
\* 4 attempts and the last one ended in a transient failure, the error thrown
\* is the one recorded for that attempt: the network exception, the server
\* error with its status, or the parser's exception; not a generic error.
LastErrorThrown ==
  /\ (scenePc = "threw" /\ sceneRequests = MAX_RETRIES + 1
        /\ sceneLastOutcome \in TransientClasses) =>
       /\ sceneError = sceneLastError
       /\ sceneError.kind = (CASE sceneLastOutcome = "network" -> "net"
                               [] sceneLastOutcome = "5xx" -> "scene_5xx"
                               [] OTHER -> "json")
       /\ sceneLastOutcome = "5xx" => sceneError.status >= 500
  /\ (videoPc = "threw" /\ createRequests = MAX_RETRIES + 1 /\ generationId = NoUrl
        /\ videoLastOutcome \in TransientClasses) =>
       /\ videoError = videoLastError
       /\ videoError.kind = (CASE videoLastOutcome = "network" -> "net"
                               [] videoLastOutcome = "5xx" -> "create_5xx"
                               [] OTHER -> "json")
       /\ videoLastOutcome = "5xx" => videoError.status >= 500

\* C25 witness: the create phase of generateVideo has thrown the gateway
\* timeout of its 4th attempt.
FourthCreateErrorThrown ==
  /\ videoPc = "threw" /\ createRequests = MAX_RETRIES + 1 /\ generationId = NoUrl
  /\ videoLastOutcome = "5xx"
  /\ videoError = Err("create_5xx", 524, "")

\* C26: the attempts of generateScene and of the create phase of generateVideo
\* are made one after the other, the request in flight being that of the
\* current attempt, and the waits made so far are the delays of the schedule
\* 5 s, 15 s, 30 s in order, one before each attempt but the first: none
\* before the first attempt, none after the last.
BackoffSchedule ==
  /\ sceneWaited = SubSeq(RETRY_DELAYS, 1, sceneRequests - 1)
  /\ scenePc = "fetch" => sceneRequests = sceneAttempt + 1
  /\ scenePc = "loop" => sceneRequests = sceneAttempt
  /\ sceneRequests <= MAX_RETRIES + 1
  /\ videoWaited = SubSeq(RETRY_DELAYS, 1, createRequests - 1)
  /\ videoPc = "create_fetch" => createRequests = videoAttempt + 1
  /\ videoPc = "create_loop" => createRequests = videoAttempt
  /\ createRequests <= MAX_RETRIES + 1

\* C26 witness: the 4th attempt of generateScene is in flight after the three
\* waits of the schedule.
FourthAttemptAfterThreeWaits ==
  /\ scenePc = "fetch" /\ sceneRequests = MAX_RETRIES + 1
  /\ sceneWaited = <<5000, 15000, 30000>>

\* C27: a poll of generateVideo that reports completed without a video
\* locator ends the call at once with the error of the missing locator: the
\* call has thrown, no poll follows, and the poll is not counted as a
\* transient failure.
CompletedWithoutUrlEndsCall ==
  lastPoll = "completed_no_url" =>
    /\ videoPc = "threw"
    /\ videoError = Err("no_video_url", 0, "")
    /\ consecutivePollErrors = 0

\* C27 witness: the second poll reported completed without a locator and the
\* call has thrown.
CompletedWithoutUrlOnSecondPoll ==
  /\ lastPoll = "completed_no_url" /\ polls = 2 /\ videoPc = "threw"
  /\ videoError.kind = "no_video_url"

\* C28: generateVideo returns only when its last poll reported completed with
\* a video locator, and returns that locator, the task identifier of the
\* create phase and the credits reported; after a poll that reported another
\* status than completed, failed or error the call goes on polling, and ends
\* only with the ceiling's error once the ceiling has elapsed.
ReturnsOnlyOnCompleted ==
  /\ videoPc = "returned" =>
       /\ lastPoll = "completed"
       /\ videoResult.videoUrl = "video.url"
       /\ videoResult.generationId = generationId /\ generationId = "job-1"
       /\ videoResult.creditsUsed \in CreditValues
  /\ lastPoll = "pending" =>
       /\ videoPc \in {"poll_head", "poll_fetch", "threw"}
       /\ consecutivePollErrors = 0
       /\ videoPc = "threw" => (videoError.kind = "timeout" /\ elapsed >= TIMEOUT_MS)

\* C28 witness: generateVideo has returned on its second poll, which reported
\* completed with a locator and credits.
ReturnedOnSecondPoll ==
  /\ videoPc = "returned" /\ polls = 2 /\ lastPoll = "completed"
  /\ videoResult.creditsUsed = 250

\* C29: the status callback of generateVideo is called once with queued after
\* the task is created and before the first poll; then once by every poll that
\* returned a parsed status, with the status reported, the terminal statuses
\* included, before the call goes on, returns or throws; a poll that failed
\* does not call it.
StatusCallbackPerParsedPoll ==
  /\ (videoPc = "poll_head" /\ polls = 0) => statusCalls = <<"queued">>
  /\ videoPc = "poll_fetch" => statusCalls = <<>>
  /\ videoPc \in {"idle", "create_loop", "create_fetch"} => statusCalls = <<>>
  /\ (polls > 0 /\ videoPc \in {"poll_head", "returned", "threw"}) =>
       CASE lastPoll = "pending" ->
              Len(statusCalls) = 1 /\ statusCalls[1] \in PendingStatuses
         [] lastPoll \in {"completed", "completed_no_url"} ->
              statusCalls = <<"completed">>
         [] lastPoll = "failed" ->
              Len(statusCalls) = 1 /\ statusCalls[1] \in {"failed", "error"}
         [] OTHER -> statusCalls = <<>>
  /\ videoPc = "returned" => statusCalls = <<"completed">>

\* C29 witness: the third poll reported failed and the callback has been
\* called with that status before the call threw the business failure.
FailedStatusNotified ==
  /\ videoPc = "threw" /\ polls = 3 /\ lastPoll = "failed"
  /\ statusCalls = <<"failed">> /\ videoError.kind = "business"

\* C30: generateScene returns the locator of the first shape of the parsed
\* response, in the order data[0] (url, else b64_json), images[0].url, url,
\* that holds one; an attempt fails with the error of the missing image only
\* when no shape holds a locator.
FirstLocatorReturned ==
  LET first == IF sceneData.data0 \in {"url", "both"} THEN "data[0].url"
               ELSE IF sceneData.data0 = "b64" THEN "data[0].b64_json"
               ELSE IF sceneData.images0 = "url" THEN "images[0].url"
               ELSE IF sceneData.url THEN "url"
               ELSE NoUrl
  IN /\ scenePc = "returned" => sceneResult.imageUrl = first
     /\ (scenePc \in {"loop", "threw"} /\ sceneLastOutcome = "missing_field") => first = NoUrl

\* C31: when the scene stage of processConversation has failed, the video
\* service has not been called in the run, and the result has success = false,
\* the message of the scene stage's error and a video time of 0.
SceneFailureSkipsVideo ==
  (program = "cli" /\ pipePc = "returned" /\ stage1 = "failed") =>
    /\ videoRequests = 0 /\ stage2 = "none"
    /\ ~pipeResult.success
    /\ pipeFailure # "" /\ pipeResult.error = pipeFailure
    /\ pipeResult.videoPath = NoPath
    /\ pipeResult.videoGenerationMs = 0

\* C31 witness: processConversation has returned after the scene service threw.
SceneFailureReturned ==
  /\ program = "cli" /\ pipePc = "returned" /\ stage1 = "failed"
  /\ pipeResult.error = "API error" /\ pipeResult.videoGenerationMs = 0
  /\ videoRequests = 0

\* C32: processWithExistingScene never calls the scene service; it calls the
\* video service with the image read from the path supplied; its result has a
\* scene time of 0, on success and on failure, and on success carries the
\* supplied scene path and the video path.
ExistingSceneBypassesSceneStage ==
  (program = "cli" /\ pipeCall = "processWithExistingScene") =>
    /\ stage1 = "none" /\ sceneGenTime = 0
    /\ pipePc = "existing_video" => videoInput = "readFileSync(scenePath)"
    /\ pipePc = "returned" =>
         /\ pipeResult.sceneGenerationMs = 0
         /\ IF pipeFailure = ""
              THEN /\ pipeResult.success
                   /\ videoInput = "readFileSync(scenePath)"
                   /\ pipeResult.scenePath = SuppliedScenePath
                   /\ pipeResult.videoPath = VideoPath
              ELSE /\ ~pipeResult.success
                   /\ pipeResult.error = pipeFailure
                   /\ pipeResult.videoGenerationMs = 0

\* C32 witness: processWithExistingScene has returned the video made from the
\* supplied scene, the video service having taken 1200 ms.
ExistingSceneSucceeded ==
  /\ program = "cli" /\ pipeCall = "processWithExistingScene" /\ pipePc = "returned"
  /\ pipeResult.success /\ pipeResult.scenePath = SuppliedScenePath
  /\ pipeResult.videoGenerationMs = 1200 /\ pipeResult.sceneGenerationMs = 0

\* C33: every call of generateVideo terminates when each remote request
\* returns or throws: it makes at most 4 create requests and at most
\* TIMEOUT_MS / POLL_INTERVAL_MS polls, and a call that has started returns
\* or throws.
VideoCallTerminates ==
  /\ [](createRequests <= MAX_RETRIES + 1 /\ polls <= TIMEOUT_MS \div POLL_INTERVAL_MS)
  /\ (videoPc \in {"create_loop", "create_fetch", "poll_head", "poll_fetch"})
       ~> (videoPc \in {"returned", "threw"})

\* C33 witness: a call whose 30 polls all left the job pending has ended with
\* the error of the ceiling.
TimedOutAfterThirtyPolls ==
  /\ videoPc = "threw" /\ videoError.kind = "timeout"
  /\ polls = TIMEOUT_MS \div POLL_INTERVAL_MS /\ lastPoll = "pending"

\* C34: Veo3Service.generateVideo and processGeneration poll the video
\* operation at most maxWaitTimeMs / pollIntervalMs = 60 times; the timed-out
\* error is raised only for an operation that is still not done after the
\* 60th poll, an operation found done by then goes on to the download; and
\* every call, and every run of the web server, ends: the run's job reaches
\* complete or error.
OperationPolledAtMostSixtyTimes ==
  /\ [](/\ veoPolls <= maxWaitTimeMs \div pollIntervalMs
        /\ attempts <= maxAttempts
        /\ (veoPc = "ended" /\ veoOutcome.message = "Video generation timed out after 600 seconds")
             => (~veoDone /\ veoPolls = maxWaitTimeMs \div pollIntervalMs)
        /\ (veoPc = "download" \/ (veoPc = "ended" /\ veoOutcome.ok)) => veoDone
        /\ (veoPc = "poll" /\ elapsedTime = veoPolls * pollIntervalMs) \/ veoPc # "poll"
        /\ \A id \in JobIds :
             (webPc = "finished" /\ generations[id].error = "Video generation timed out")
               => (~operationDone /\ attempts = maxAttempts)
        /\ webPc \in {"download", "cleanup"} => operationDone)
  /\ (veoPc \in {"create", "poll", "download"}) ~> (veoPc = "ended")
  /\ (webPc \in {"scene", "video_create", "video_poll", "download", "cleanup"})
       ~> (webPc = "finished"
             /\ \A id \in JobIds : generations[id].status \in {"complete", "error"})

\* C34 witness: generateVideo has returned the video of an operation found
\* done on the 60th poll.
DoneOnLastPoll ==
  /\ program = "cli" /\ veoPc = "ended" /\ veoOutcome.ok /\ veoDone
  /\ veoPolls = maxWaitTimeMs \div pollIntervalMs /\ elapsedTime = maxWaitTimeMs

\* C35: generateVideoFromText stops polling once maxWaitTimeMs has elapsed
\* without the operation being done: it sends no poll after having waited
\* maxWaitTimeMs for the operation.
TextPollingStopsAtCeiling ==
  (program = "cli" /\ pipeCall = "generateVideoFromText" /\ veoPc = "text_poll") =>
    elapsedTime <= maxWaitTimeMs

\* C36: the status of the React client changes only along idle ->
\* generating-scene -> generating-video -> done, from a generating state to
\* error, and from done or error back to idle; a run is started only in idle,
\* and while the status is idle, done or error no call of the run is in
\* flight.
ClientStatusMachine ==
  /\ [][status' # status =>
          <<status, status'>> \in {<<"idle", "generating-scene">>,
                                   <<"generating-scene", "generating-video">>,
                                   <<"generating-video", "done">>,
                                   <<"generating-scene", "error">>,
                                   <<"generating-video", "error">>,
                                   <<"done", "idle">>, <<"error", "idle">>}]_vars
  /\ [][runs' # runs => (status = "idle" /\ status' = "generating-scene")]_vars
  /\ [](program = "api" =>
          /\ status \in {"idle", "done", "error"} =>
               (scenePc = "idle" /\ videoPc = "idle" /\ handler = "idle")
          /\ status = "generating-scene" => videoPc = "idle"
          /\ status = "generating-video" => scenePc = "idle")

\* C36 witness: after a reset the client is in the video stage of its second run.
SecondRunInVideoStage ==
  /\ program = "api" /\ runs = 2 /\ status = "generating-video"

\* C37: once a status request of the page has been answered with status
\* complete or error, has thrown, or has been answered that the generation is
\* not found, the polling has stopped and the submit button is enabled again.
PollingStopsOnEveryAnswer ==
  (program = "web" /\ polled \in {"complete", "error", "threw", "missing"}) =>
    (uiPc = "stopped" /\ ~ui.disabled)

\* C38: when the page has been answered that the job is in error, a run that
\* failed in the scene stage has the error on step 1 and not on step 2, and a
\* run that failed in the video stage has it on step 2 and not on step 1.
ErrorShownOnFailedStep ==
  (program = "web" /\ polled = "error" /\ otherId \notin JobIds) =>
    /\ stage1 = "failed" => (ui.step1 = "error" /\ ui.step2 # "error")
    /\ stage2 = "failed" => (ui.step2 = "error" /\ ui.step1 # "error")

====
